---- MODULE Spec2Model ----
(***************************************************************************)
(* A model of egov-law-mcp: the TTL disk cache (src/src/cache/law-cache.ts) *)
(* and the tools that use it, the numeral normalizer and article locator    *)
(* (src/src/api/parser.ts), and the retrying client (src/src/api/client.ts).*)
(*                                                                          *)
(* Strings are sequences of one-character strings (UTF-16 code units); the  *)
(* kanji of a designator are written by their readings: "dai" is the prefix *)
(* marker, "jo" the suffix marker, "ichi".."kyu" the digits 1..9, "ju" ten, *)
(* "hyaku" hundred, "sen" thousand.                                         *)
(***************************************************************************)
EXTENDS Integers, Sequences, FiniteSets, TLC

VARIABLES
  now,          \* the wall clock, in milliseconds
  cacheDir,     \* the cache directory: "dir", "absent", "blocked", "file"
  writable,     \* whether the cache directory accepts writes
  files,        \* the files of the cache directory: file name -> content
  initialized,  \* LawCache.initialized
  config,       \* LawCache.config
  out,          \* the outcome of the last LawCache operation
  lastSet,      \* history: <<the last completed set>>, <<>> once anything else
                \* than a get or the clock has touched the cache since
  toolOut,      \* the outcome of the last tool call
  keyIn,        \* a category and identifier handed to getCacheKey
  keyOut,       \* <<the file name getCacheKey made of them>>
  numIn,        \* a designator handed to normalizeArticleNum
  numOut,       \* <<what normalizeArticleNum returned for it>>
  tree,         \* a decoded MainProvision
  found,        \* the outcome of the last findArticle
  impl,         \* which revision of the client is running
  fetch,        \* the state of the running EGovLawClient request
  lawListCache, \* EGovLawClient.lawListCache: category -> the laws listed in it
  call,         \* a parser function and the arguments handed to it
  ret,          \* <<what that function returned>>
  sets          \* the LawCache.set calls in flight, one per caller

vars == <<now, cacheDir, writable, files, initialized, config, out, lastSet,
          toolOut, keyIn, keyOut, numIn, numOut, tree, found, impl, fetch,
          lawListCache, call, ret, sets>>

cacheVars == <<now, cacheDir, writable, files, initialized, config, out, lastSet>>
keyVars == <<keyIn, keyOut>>
numVars == <<numIn, numOut>>
treeVars == <<tree, found>>
clientVars == <<impl, fetch, lawListCache>>
pureVars == <<call, ret>>
raceVars == <<sets>>
notCache == <<toolOut, keyVars, numVars, treeVars, clientVars, pureVars, raceVars>>
notTools == <<keyVars, numVars, treeVars, clientVars, pureVars, raceVars>>

(***************************************************************************)
(* Bounds of the model.                                                     *)
(***************************************************************************)
MaxTime == 3
MaxTtl == 2
MaxIdLen == 3
MaxDesignator == 1100
MaxArticles == 2
MaxTextDepth == 2
MaxParagraphs == 2

Undefined == <<"undefined">>
None == "none"
Null == "null"

(***************************************************************************)
(* Characters.                                                              *)
(***************************************************************************)
Lower == {"a","b","c","d","e","f","g","h","i","j","k","l","m",
          "n","o","p","q","r","s","t","u","v","w","x","y","z"}
Upper == {"A","B","C","D","E","F","G","H","I","J","K","L","M",
          "N","O","P","Q","R","S","T","U","V","W","X","Y","Z"}
Digit == {"0","1","2","3","4","5","6","7","8","9"}

\* the characters the class [a-zA-Z0-9\-_] accepts
SafeChars == Lower \cup Upper \cup Digit \cup {"-", "_"}

\* a replacement that deletes the characters outside the class
SanitizeDropping(id) ==
  SelectSeq(id, LAMBDA c : c \in SafeChars)

\* id.replace(/[^a-zA-Z0-9\-_]/g, '_'): every code unit outside the class
\* becomes one "_", every other code unit stays
Sanitize(id) ==
  [i \in 1..Len(id) |-> IF id[i] \in SafeChars THEN id[i] ELSE "_"]

Types == {"lawList", "lawText", "updateList"}

\* `${type}_${safeId}.json`
getCacheKey(type, id) == <<type, "_">> \o Sanitize(id) \o <<".json">>

(***************************************************************************)
(* Payloads, JSON and dates.  A payload is an object; JSON.stringify drops  *)
(* the properties whose value is undefined, and reading a property that is  *)
(* not there gives undefined.  toISOString/new Date(string) are exact on    *)
(* millisecond timestamps.                                                  *)
(***************************************************************************)
Payloads == { [lawId |-> <<"A">>, lawNameKana |-> Undefined],
              [lawId |-> <<"A">>, lawNameKana |-> <<"k", "a">>] }

PayloadFields == {"lawId", "lawNameKana"}

Prop(o, k) == IF k \in DOMAIN o THEN o[k] ELSE Undefined

\* two objects no property read tells apart
SameValue(a, b) == \A k \in PayloadFields : Prop(a, k) = Prop(b, k)

JsonStringifyObject(o) ==
  [k \in {f \in DOMAIN o : o[f] # Undefined} |-> o[k]]

toISOString(t) == [iso |-> t]
DateParse(s) == s.iso

\* JSON.stringify(entry, null, 2)
JsonStringify(entry) ==
  [json |-> [data |-> JsonStringifyObject(entry.data),
             cachedAt |-> entry.cachedAt,
             expiresAt |-> entry.expiresAt]]

\* a file whose content is not JSON, and a file that cannot be read
Corrupt == [garbage |-> TRUE]
Unreadable == [noread |-> TRUE]

\* JSON.parse(data)
JsonParse(content) ==
  IF content = Corrupt THEN [threw |-> TRUE]
  ELSE [threw |-> FALSE, value |-> content.json]

(***************************************************************************)
(* LawCache                                                                 *)
(***************************************************************************)
DefaultLawListTtl == 86400000
DefaultLawTextTtl == 604800000
DefaultUpdateListTtl == 3600000

\* constructor(config?): config?.x ?? default; a property that is not given
\* is not in the domain of `partial`
LawCacheConfig(partial) ==
  [lawListTtl |-> IF "lawListTtl" \in DOMAIN partial
                  THEN partial.lawListTtl ELSE DefaultLawListTtl,
   lawTextTtl |-> IF "lawTextTtl" \in DOMAIN partial
                  THEN partial.lawTextTtl ELSE DefaultLawTextTtl,
   updateListTtl |-> IF "updateListTtl" \in DOMAIN partial
                     THEN partial.updateListTtl ELSE DefaultUpdateListTtl]

\* getTtl(type)
getTtl(cfg, type) ==
  CASE type = "lawList" -> cfg.lawListTtl
    [] type = "lawText" -> cfg.lawTextTtl
    [] type = "updateList" -> cfg.updateListTtl

\* mkdir(cacheDir, { recursive: true })
mkdir(dir) ==
  CASE dir = "dir" -> [err |-> None, dir |-> "dir"]
    [] dir = "absent" -> [err |-> None, dir |-> "dir"]
    [] dir = "blocked" -> [err |-> "EACCES", dir |-> "blocked"]
    [] dir = "file" -> [err |-> "EEXIST", dir |-> "file"]

\* ensureInitialized()
ensureInitialized(init, dir) ==
  IF init THEN [threw |-> FALSE, initialized |-> TRUE, dir |-> dir]
  ELSE LET m == mkdir(dir) IN
       IF m.err = None
       THEN [threw |-> FALSE, initialized |-> TRUE, dir |-> m.dir]
       ELSE IF m.err # "EEXIST"
            THEN [threw |-> TRUE, initialized |-> FALSE, dir |-> m.dir]
            ELSE [threw |-> FALSE, initialized |-> TRUE, dir |-> m.dir]

\* readFile(path, 'utf-8')
readFile(dir, fs, key) ==
  IF dir # "dir" \/ key \notin DOMAIN fs THEN [err |-> "ENOENT"]
  ELSE IF fs[key] = Unreadable THEN [err |-> "EACCES"]
  ELSE [err |-> None, data |-> fs[key]]

\* writeFile(path, text, 'utf-8')
writeFile(dir, canWrite, fs, key, text) ==
  IF dir # "dir" THEN [err |-> "ENOENT", fs |-> fs]
  ELSE IF ~canWrite THEN [err |-> "EACCES", fs |-> fs]
  ELSE [err |-> None, fs |-> (key :> text) @@ fs]

\* get that tests the creation timestamp instead of the expiry timestamp
LawCacheGetByCachedAt(init, dir, fs, time, type, id) ==
  LET e == ensureInitialized(init, dir) IN
  IF e.threw
  THEN [kind |-> "throw", value |-> <<>>, seen |-> <<>>,
        initialized |-> e.initialized, dir |-> e.dir]
  ELSE LET r == readFile(e.dir, fs, getCacheKey(type, id)) IN
       IF r.err # None \/ JsonParse(r.data).threw
       THEN [kind |-> "miss", value |-> <<>>, seen |-> <<>>,
             initialized |-> e.initialized, dir |-> e.dir]
       ELSE IF DateParse(JsonParse(r.data).value.cachedAt) < time
            THEN [kind |-> "miss", value |-> <<>>,
                  seen |-> <<JsonParse(r.data).value>>,
                  initialized |-> e.initialized, dir |-> e.dir]
            ELSE [kind |-> "value", value |-> <<JsonParse(r.data).value.data>>,
                  seen |-> <<JsonParse(r.data).value>>,
                  initialized |-> e.initialized, dir |-> e.dir]

\* get(type, id) run at wall-clock time `time`: what it returns (kind "value"
\* with the payload, kind "miss" for null, kind "throw" for a rejection), the
\* entry it decoded (seen) and what it leaves of the object and the directory
LawCacheGet(init, dir, fs, time, type, id) ==
  LET e == ensureInitialized(init, dir) IN
  IF e.threw
  THEN [kind |-> "throw", value |-> <<>>, seen |-> <<>>,
        initialized |-> e.initialized, dir |-> e.dir]
  ELSE LET r == readFile(e.dir, fs, getCacheKey(type, id)) IN
       IF r.err # None
       THEN [kind |-> "miss", value |-> <<>>, seen |-> <<>>,
             initialized |-> e.initialized, dir |-> e.dir]
       ELSE LET parsed == JsonParse(r.data) IN
            IF parsed.threw
            THEN [kind |-> "miss", value |-> <<>>, seen |-> <<>>,
                  initialized |-> e.initialized, dir |-> e.dir]
            ELSE LET entry == parsed.value
                     expiresAt == DateParse(entry.expiresAt)
                 IN IF expiresAt < time
                    THEN [kind |-> "miss", value |-> <<>>, seen |-> <<entry>>,
                          initialized |-> e.initialized, dir |-> e.dir]
                    ELSE [kind |-> "value", value |-> <<entry.data>>,
                          seen |-> <<entry>>,
                          initialized |-> e.initialized, dir |-> e.dir]

\* a set that completes without writing
LawCacheSetNothing(init, dir, canWrite, fs, cfg, time, type, id, data) ==
  LET e == ensureInitialized(init, dir) IN
  [kind |-> IF e.threw THEN "throw" ELSE "done",
   initialized |-> e.initialized, dir |-> e.dir, fs |-> fs]

\* set(type, id, data) run at wall-clock time `time`
LawCacheSet(init, dir, canWrite, fs, cfg, time, type, id, data) ==
  LET e == ensureInitialized(init, dir) IN
  IF e.threw
  THEN [kind |-> "throw", initialized |-> e.initialized, dir |-> e.dir, fs |-> fs]
  ELSE LET ttl == getTtl(cfg, type)
           entry == [data |-> data,
                     cachedAt |-> toISOString(time),
                     expiresAt |-> toISOString(time + ttl)]
           w == writeFile(e.dir, canWrite, fs, getCacheKey(type, id),
                          JsonStringify(entry))
       IN [kind |-> IF w.err = None THEN "done" ELSE "throw",
           initialized |-> e.initialized, dir |-> e.dir, fs |-> w.fs]

\* unlink(path)
unlink(dir, canWrite, fs, key) ==
  IF dir # "dir" \/ key \notin DOMAIN fs THEN [err |-> "ENOENT", fs |-> fs]
  ELSE IF ~canWrite THEN [err |-> "EACCES", fs |-> fs]
  ELSE [err |-> None, fs |-> [k \in DOMAIN fs \ {key} |-> fs[k]]]

\* delete(type, id)
LawCacheDelete(init, dir, canWrite, fs, type, id) ==
  LET e == ensureInitialized(init, dir) IN
  IF e.threw
  THEN [kind |-> "throw", initialized |-> e.initialized, dir |-> e.dir, fs |-> fs]
  ELSE [kind |-> "done", initialized |-> e.initialized, dir |-> e.dir,
        fs |-> unlink(e.dir, canWrite, fs, getCacheKey(type, id)).fs]

\* clear(): readdir, then unlink of every file, each failure swallowed
LawCacheClear(init, dir, canWrite, fs) ==
  LET e == ensureInitialized(init, dir) IN
  IF e.threw
  THEN [kind |-> "throw", initialized |-> e.initialized, dir |-> e.dir, fs |-> fs]
  ELSE [kind |-> "done", initialized |-> e.initialized, dir |-> e.dir,
        fs |-> IF e.dir = "dir" /\ canWrite THEN <<>> ELSE fs]

\* getStats(): the number of files in the directory and whether there is an
\* oldest and a newest modification time (null without files); every failure
\* of readdir is answered with zeros
LawCacheGetStats(init, dir, fs) ==
  LET e == ensureInitialized(init, dir) IN
  IF e.threw
  THEN [kind |-> "throw", value |-> <<>>, initialized |-> e.initialized, dir |-> e.dir]
  ELSE [kind |-> "value",
        value |-> <<IF e.dir # "dir" \/ DOMAIN fs = {}
                    THEN [totalFiles |-> 0, oldestEntry |-> Null, newestEntry |-> Null]
                    ELSE [totalFiles |-> Cardinality(DOMAIN fs),
                          oldestEntry |-> "mtime", newestEntry |-> "mtime"]>>,
        initialized |-> e.initialized, dir |-> e.dir]

(***************************************************************************)
(* The cache as a state machine: the operations of LawCache, the clock and  *)
(* what the environment does to the cache directory.                        *)
(***************************************************************************)
\* the categories and identifiers the operations are run on
CacheTypes == {"lawList", "updateList"}
Ids == { <<"a", "/">> }

PartialConfigs ==
  { [lawListTtl |-> t, updateListTtl |-> MaxTtl] : t \in 0..MaxTtl }

NoOut == [op |-> None, type |-> None, id |-> <<>>, kind |-> None,
          value |-> <<>>, seen |-> <<>>, at |-> 0]

CacheIdle ==
  /\ now = 0 /\ cacheDir = "dir" /\ writable = TRUE /\ files = <<>>
  /\ initialized = FALSE /\ config = LawCacheConfig(<<>>)
  /\ out = NoOut /\ lastSet = <<>>

ToolIdle == toolOut = <<>>
KeyIdle == keyIn = <<>> /\ keyOut = <<>>
NumIdle == numIn = <<>> /\ numOut = <<>>
TreeIdle == tree = <<>> /\ found = <<>>
ClientIdle == impl = None /\ fetch = <<>> /\ lawListCache = <<>>
PureIdle == call = <<>> /\ ret = <<>>
RaceIdle == sets = <<>>

CacheInit ==
  /\ now = 0
  /\ cacheDir \in {"dir", "absent", "blocked", "file"}
  /\ writable \in BOOLEAN
  /\ files = <<>>
  /\ initialized = FALSE
  /\ config \in {LawCacheConfig(p) : p \in PartialConfigs}
  /\ out = NoOut
  /\ lastSet = <<>>
  /\ ToolIdle /\ KeyIdle /\ NumIdle /\ TreeIdle /\ ClientIdle /\ PureIdle /\ RaceIdle

Tick ==
  /\ now < MaxTime
  /\ now' = now + 1
  /\ UNCHANGED <<cacheDir, writable, files, initialized, config, out, lastSet, notCache>>

\* a get that removes the file of an entry it finds expired
GetSweeping(type, id) ==
  LET r == LawCacheGet(initialized, cacheDir, files, now, type, id) IN
  /\ initialized' = r.initialized
  /\ cacheDir' = r.dir
  /\ files' = IF r.kind = "miss" /\ r.seen # <<>>
               THEN [k \in DOMAIN files \ {getCacheKey(type, id)} |-> files[k]]
               ELSE files
  /\ out' = [op |-> "get", type |-> type, id |-> id, kind |-> r.kind,
             value |-> r.value, seen |-> r.seen, at |-> now]
  /\ UNCHANGED <<now, writable, config, lastSet, notCache>>

Get(type, id) ==
  LET r == LawCacheGet(initialized, cacheDir, files, now, type, id) IN
  /\ initialized' = r.initialized
  /\ cacheDir' = r.dir
  /\ out' = [op |-> "get", type |-> type, id |-> id, kind |-> r.kind,
             value |-> r.value, seen |-> r.seen, at |-> now]
  /\ UNCHANGED <<now, writable, files, config, lastSet, notCache>>

Set(type, id, data) ==
  LET r == LawCacheSet(initialized, cacheDir, writable, files, config, now,
                       type, id, data) IN
  /\ initialized' = r.initialized
  /\ cacheDir' = r.dir
  /\ files' = r.fs
  /\ out' = [op |-> "set", type |-> type, id |-> id, kind |-> r.kind,
             value |-> <<data>>, seen |-> <<>>, at |-> now]
  /\ lastSet' = IF r.kind = "done"
                THEN <<[type |-> type, id |-> id, data |-> data, at |-> now]>>
                ELSE <<>>
  /\ UNCHANGED <<now, writable, config, notCache>>

Delete(type, id) ==
  LET r == LawCacheDelete(initialized, cacheDir, writable, files, type, id) IN
  /\ initialized' = r.initialized
  /\ cacheDir' = r.dir
  /\ files' = r.fs
  /\ out' = [op |-> "delete", type |-> type, id |-> id, kind |-> r.kind,
             value |-> <<>>, seen |-> <<>>, at |-> now]
  /\ lastSet' = <<>>
  /\ UNCHANGED <<now, writable, config, notCache>>

Clear ==
  LET r == LawCacheClear(initialized, cacheDir, writable, files) IN
  /\ initialized' = r.initialized
  /\ cacheDir' = r.dir
  /\ files' = r.fs
  /\ out' = [op |-> "clear", type |-> None, id |-> <<>>, kind |-> r.kind,
             value |-> <<>>, seen |-> <<>>, at |-> now]
  /\ lastSet' = <<>>
  /\ UNCHANGED <<now, writable, config, notCache>>

GetStats ==
  LET r == LawCacheGetStats(initialized, cacheDir, files) IN
  /\ initialized' = r.initialized
  /\ cacheDir' = r.dir
  /\ out' = [op |-> "stats", type |-> None, id |-> <<>>, kind |-> r.kind,
             value |-> r.value, seen |-> <<>>, at |-> now]
  /\ UNCHANGED <<now, writable, files, config, lastSet, notCache>>

\* the permissions of the cache directory change
EnvChmod ==
  /\ cacheDir = "dir"
  /\ writable' = ~writable
  /\ UNCHANGED <<now, cacheDir, files, initialized, config, out, lastSet,
                 toolOut, notTools>>

\* another process damages a cache file or takes its read permission away
EnvDamage(key, content) ==
  /\ key \in DOMAIN files
  /\ files[key] # content
  /\ files' = [files EXCEPT ![key] = content]
  /\ lastSet' = <<>>
  /\ UNCHANGED <<now, cacheDir, writable, initialized, config, out, notCache>>

\* another process removes the cache directory
EnvRemoveDir ==
  /\ cacheDir = "dir"
  /\ cacheDir' = "absent"
  /\ files' = <<>>
  /\ lastSet' = <<>>
  /\ UNCHANGED <<now, writable, initialized, config, out, notCache>>

CacheNext ==
  \/ Tick
  \/ \E type \in CacheTypes, id \in Ids : Get(type, id)
  \/ \E type \in CacheTypes, id \in Ids, data \in Payloads : Set(type, id, data)
  \/ \E type \in CacheTypes, id \in Ids : Delete(type, id)
  \/ Clear
  \/ GetStats
  \/ EnvChmod
  \/ \E type \in CacheTypes, id \in Ids, c \in {Corrupt, Unreadable} :
       EnvDamage(getCacheKey(type, id), c)
  \/ EnvRemoveDir

SpecCache == CacheInit /\ [][CacheNext]_vars

(***************************************************************************)
(* The tools (search_laws, get_law_text, get_article) and the CallTool      *)
(* handler.                                                                 *)
(* What the client answers is an input of the call.                         *)
(***************************************************************************)
Whitespace == {" ", "U+3000"}

RECURSIVE TrimStart(_)
TrimStart(str) ==
  IF str # <<>> /\ Head(str) \in Whitespace THEN TrimStart(Tail(str)) ELSE str

RECURSIVE TrimEnd(_)
TrimEnd(str) ==
  IF str # <<>> /\ str[Len(str)] \in Whitespace
  THEN TrimEnd(SubSeq(str, 1, Len(str) - 1)) ELSE str

\* a trim that leaves the string as it is
KeepWhitespace(str) == str

\* keyword.trim()
Trim(str) == TrimEnd(TrimStart(str))

\* `search_${keyword}_${category ?? 'all'}`
SearchCacheKey(keyword, category) ==
  <<"s", "e", "a", "r", "c", "h", "_">> \o keyword \o <<"_">>
    \o (IF category = Undefined THEN <<"a", "l", "l">> ELSE category)

\* `body` with `value` as its argument, `value` being computed once
Let(value, body(_)) == CHOOSE y \in {body(x) : x \in {value}} : TRUE

\* what a tool hands back: the result object, or a rejection (threw); calls
\* lists the cache and client calls it made, c is the cache it leaves
ToolResult(threw, success, code, data, calls, c) ==
  [threw |-> threw, success |-> success, code |-> code, data |-> data,
   calls |-> calls, initialized |-> c.initialized, dir |-> c.dir, fs |-> c.fs]

Call(fn, type, id) == [fn |-> fn, type |-> type, id |-> id]

\* the cache after a get or set that returned r (a get leaves the files)
After(r, fs) ==
  [initialized |-> r.initialized, dir |-> r.dir,
   fs |-> IF "fs" \in DOMAIN r THEN r.fs ELSE fs]

\* searchLaws(params, client, cache) with the cache in state c and the client
\* answering `upstream`
searchLaws(params, upstream, c, canWrite, cfg, time) ==
  IF params.keyword = Undefined \/ params.keyword = <<>>
     \/ Trim(params.keyword) = <<>>
  THEN ToolResult(FALSE, FALSE, "INVALID_PARAMS", <<>>, <<>>, c)
  ELSE
    LET cacheKey == SearchCacheKey(params.keyword, params.category)
        getCall == Call("cache.get", "lawList", cacheKey)
        clientCall == Call("client.searchLaws", None, params.keyword)
        setCall == Call("cache.set", "lawList", cacheKey)
    IN Let(LawCacheGet(c.initialized, c.dir, c.fs, time, "lawList", cacheKey),
           LAMBDA g :
       IF g.kind = "throw"
       THEN ToolResult(TRUE, FALSE, "THROWN", <<>>, <<getCall>>, After(g, c.fs))
       ELSE IF g.kind = "value"
       THEN ToolResult(FALSE, TRUE, None, g.value, <<getCall>>, After(g, c.fs))
       ELSE IF ~upstream.success
       THEN ToolResult(FALSE, FALSE, upstream.code, <<>>,
                       <<getCall, clientCall>>, After(g, c.fs))
       ELSE Let(LawCacheSet(g.initialized, g.dir, canWrite, c.fs, cfg, time,
                            "lawList", cacheKey, upstream.data),
                LAMBDA w :
                IF w.kind = "throw"
                THEN ToolResult(TRUE, FALSE, "THROWN", <<>>,
                                <<getCall, clientCall, setCall>>, After(w, c.fs))
                ELSE ToolResult(FALSE, TRUE, None, <<upstream.data>>,
                                <<getCall, clientCall, setCall>>,
                                After(w, c.fs))))

\* getLawText(params, client, cache)
getLawText(params, upstream, c, canWrite, cfg, time) ==
  LET law_id == params.law_id
      law_number == params.law_number
      noId == law_id = Undefined \/ law_id = <<>>
      noNumber == law_number = Undefined \/ law_number = <<>>
  IN
  IF noId /\ noNumber
  THEN ToolResult(FALSE, FALSE, "INVALID_PARAMS", <<>>, <<>>, c)
  ELSE
    LET cacheKey == IF law_id # Undefined THEN law_id ELSE law_number
        getCall == Call("cache.get", "lawText", cacheKey)
        clientCall == IF ~noId
                      THEN Call("client.getLawById", None, law_id)
                      ELSE Call("client.getLawByNumber", None, law_number)
        similarCall == Call("client.findSimilarLaws", None, cacheKey)
        setCall == Call("cache.set", "lawText", cacheKey)
    IN Let(LawCacheGet(c.initialized, c.dir, c.fs, time, "lawText", cacheKey),
           LAMBDA g :
       IF g.kind = "throw"
       THEN ToolResult(TRUE, FALSE, "THROWN", <<>>, <<getCall>>, After(g, c.fs))
       ELSE IF g.kind = "value"
       THEN ToolResult(FALSE, TRUE, None, g.value, <<getCall>>, After(g, c.fs))
       ELSE IF ~upstream.success
       THEN IF upstream.code = "NOT_FOUND"
            THEN ToolResult(FALSE, FALSE,
                            IF upstream.similar THEN "SUGGESTION"
                            ELSE upstream.code,
                            <<>>, <<getCall, clientCall, similarCall>>,
                            After(g, c.fs))
            ELSE ToolResult(FALSE, FALSE, upstream.code, <<>>,
                            <<getCall, clientCall>>, After(g, c.fs))
       ELSE
         LET data == upstream.data
             again == ~noNumber /\ data.lawId # <<>> /\ data.lawId # law_number
             setIdCall == Call("cache.set", "lawText", data.lawId)
         IN Let(LawCacheSet(g.initialized, g.dir, canWrite, c.fs, cfg, time,
                            "lawText", cacheKey, data),
                LAMBDA w :
            IF w.kind = "throw"
            THEN ToolResult(TRUE, FALSE, "THROWN", <<>>,
                            <<getCall, clientCall, setCall>>, After(w, c.fs))
            ELSE IF ~again
            THEN ToolResult(FALSE, TRUE, None, <<data>>,
                            <<getCall, clientCall, setCall>>, After(w, c.fs))
            ELSE Let(LawCacheSet(w.initialized, w.dir, canWrite, w.fs, cfg,
                                 time, "lawText", data.lawId, data),
                     LAMBDA w2 :
                 IF w2.kind = "throw"
                 THEN ToolResult(TRUE, FALSE, "THROWN", <<>>,
                                 <<getCall, clientCall, setCall, setIdCall>>,
                                 After(w2, c.fs))
                 ELSE ToolResult(FALSE, TRUE, None, <<data>>,
                                 <<getCall, clientCall, setCall, setIdCall>>,
                                 After(w2, c.fs)))))

\* getArticle(params, client, cache): the entry of the law text is read and
\* not used, the client is asked every time, nothing is stored
getArticle(params, upstream, c, time) ==
  IF params.law_id = Undefined \/ params.law_id = <<>>
  THEN ToolResult(FALSE, FALSE, "INVALID_PARAMS", <<>>, <<>>, c)
  ELSE IF params.article = Undefined \/ params.article = <<>>
  THEN ToolResult(FALSE, FALSE, "INVALID_PARAMS", <<>>, <<>>, c)
  ELSE
    LET getCall == Call("cache.get", "lawText", params.law_id)
        clientCall == Call("client.getArticle", None, params.law_id)
    IN Let(LawCacheGet(c.initialized, c.dir, c.fs, time, "lawText", params.law_id),
           LAMBDA cachedLawText :
       IF cachedLawText.kind = "throw"
       THEN ToolResult(TRUE, FALSE, "THROWN", <<>>, <<getCall>>,
                       After(cachedLawText, c.fs))
       ELSE IF ~upstream.success
       THEN ToolResult(FALSE, FALSE, upstream.code, <<>>,
                       <<getCall, clientCall>>, After(cachedLawText, c.fs))
       ELSE ToolResult(FALSE, TRUE, None, <<upstream.data>>,
                       <<getCall, clientCall>>, After(cachedLawText, c.fs)))

\* the CallToolRequestSchema handler: isError is !result.success, and what a
\* tool throws is caught and answered with isError true
CallTool(name, r) ==
  [tool |-> name,
   isError |-> IF r.threw THEN TRUE ELSE ~r.success,
   caught |-> r.threw,
   code |-> r.code,
   data |-> r.data,
   calls |-> r.calls]

(***************************************************************************)
(* The server as a state machine: tool calls against one cache (created     *)
(* with the default configuration) and one client.                          *)
(***************************************************************************)
Keywords == { Undefined, <<>>, <<" ">>, <<"U+6CD5">>, <<"U+4EE4">> }
Categories == { Undefined, <<"1">> }
SearchParams == [keyword : Keywords, category : Categories]

LawTextParams ==
  [law_id : {Undefined, <<>>, <<"A">>},
   law_number : {Undefined, <<"U+6CD5">>, <<"U+4EE4">>}]

\* what the client can answer
Failures(codes) ==
  {[success |-> FALSE, code |-> c, similar |-> b] : c \in codes, b \in {FALSE}}
    \cup {[success |-> FALSE, code |-> c, similar |-> TRUE]
            : c \in codes \cap {"NOT_FOUND"}}

Successes == {[success |-> TRUE, data |-> p] : p \in Payloads}

SearchUpstream == Successes \cup Failures({"FETCH_ERROR"})
LawTextUpstream == Successes \cup Failures({"NOT_FOUND", "FETCH_ERROR"})

\* paragraph: <<>> when it is not given
ArticleParams ==
  [law_id : {Undefined, <<"A">>}, article : {Undefined, <<>>, <<"1">>},
   paragraph : {<<>>, <<2>>}]

ArticleUpstream ==
  {[success |-> TRUE, data |-> [lawId |-> <<"A">>, articleNum |-> <<"1">>]]}
    \cup Failures({"FETCH_ERROR"})

ToolsInit ==
  /\ now = 0
  /\ cacheDir \in {"dir", "absent", "blocked", "file"}
  /\ writable \in BOOLEAN
  /\ files = <<>>
  /\ initialized = FALSE
  /\ config = LawCacheConfig(<<>>)
  /\ out = NoOut
  /\ lastSet = <<>>
  /\ toolOut = <<>>
  /\ KeyIdle /\ NumIdle /\ TreeIdle /\ ClientIdle /\ PureIdle /\ RaceIdle

CacheState == [initialized |-> initialized, dir |-> cacheDir, fs |-> files]

Answer(name, params, upstream, r) ==
  /\ initialized' = r.initialized
  /\ cacheDir' = r.dir
  /\ files' = r.fs
  /\ toolOut' = <<[call |-> CallTool(name, r), params |-> params,
                   upstream |-> upstream,
                   repeated |-> /\ toolOut # <<>>
                                /\ toolOut[1].call.tool = name
                                /\ toolOut[1].params = params
                                /\ ~toolOut[1].call.isError]>>
  /\ UNCHANGED <<now, writable, config, out, lastSet, notTools>>

ToolSearchLaws(params, upstream) ==
  Answer("search_laws", params, upstream,
         searchLaws(params, upstream, CacheState, writable, config, now))

ToolGetLawText(params, upstream) ==
  Answer("get_law_text", params, upstream,
         getLawText(params, upstream, CacheState, writable, config, now))

ToolGetArticle(params, upstream) ==
  Answer("get_article", params, upstream,
         getArticle(params, upstream, CacheState, now))

ToolsNext ==
  \/ \E params \in SearchParams, upstream \in SearchUpstream :
       ToolSearchLaws(params, upstream)
  \/ \E params \in LawTextParams, upstream \in LawTextUpstream :
       ToolGetLawText(params, upstream)
  \/ \E params \in ArticleParams, upstream \in ArticleUpstream :
       ToolGetArticle(params, upstream)
  \/ EnvChmod

SpecTools == ToolsInit /\ [][ToolsNext]_vars

(***************************************************************************)
(* getCacheKey on its own: every category, and every identifier of up to    *)
(* MaxIdLen code units, among them unsafe ASCII, a kanji and the two halves *)
(* of a surrogate pair.                                                     *)
(***************************************************************************)
IdChars == {"a", "Z", "7", "-", "_", "/", ".", "U+6CD5", "U+D842", "U+DFB7"}

Strings(chars, n) == UNION {[1..k -> chars] : k \in 0..n}

KeyInit ==
  /\ keyIn \in [type : Types, id : Strings(IdChars, MaxIdLen)]
  /\ keyOut = <<>>
  /\ CacheIdle /\ ToolIdle /\ NumIdle /\ TreeIdle /\ ClientIdle /\ PureIdle /\ RaceIdle

MakeKey ==
  /\ keyOut = <<>>
  /\ keyOut' = <<getCacheKey(keyIn.type, keyIn.id)>>
  /\ UNCHANGED <<keyIn, cacheVars, toolOut, numVars, treeVars, clientVars,
                 pureVars, raceVars>>

KeyNext == MakeKey

SpecKey == KeyInit /\ [][KeyNext]_vars

(***************************************************************************)
(* normalizeArticleNum                                                      *)
(***************************************************************************)
kanjiNums ==
  [c \in {"ichi", "ni", "san", "shi", "go", "roku", "nana", "hachi", "kyu",
          "ju", "hyaku"} |->
     CASE c = "ichi" -> 1 [] c = "ni" -> 2 [] c = "san" -> 3 [] c = "shi" -> 4
       [] c = "go" -> 5 [] c = "roku" -> 6 [] c = "nana" -> 7
       [] c = "hachi" -> 8 [] c = "kyu" -> 9 [] c = "ju" -> 10
       [] c = "hyaku" -> 100]

DigitChars == <<"0", "1", "2", "3", "4", "5", "6", "7", "8", "9">>

RECURSIVE ToDecimal(_)
\* String(n) for an integer n >= 0
ToDecimal(n) ==
  IF n < 10 THEN <<DigitChars[n + 1]>>
  ELSE ToDecimal(n \div 10) \o <<DigitChars[(n % 10) + 1]>>

\* articleStr.match(/\d+/): <<the leftmost longest run of digits>>, or <<>>
MatchDigits(str) ==
  LET starts == {i \in 1..Len(str) : str[i] \in Digit} IN
  IF starts = {} THEN <<>>
  ELSE LET first == CHOOSE i \in starts : \A j \in starts : i <= j
           last == CHOOSE j \in first..Len(str) :
                     /\ \A k \in first..j : str[k] \in Digit
                     /\ j = Len(str) \/ str[j + 1] \notin Digit
       IN <<SubSeq(str, first, last)>>

\* articleStr.match(/第(.+)条/): <<the capture>>, or <<>>; the match starts at
\* the leftmost prefix marker that has a suffix marker at least two places
\* on, and the greedy capture ends before the last suffix marker
MatchKanji(str) ==
  LET ends == {j \in 1..Len(str) : str[j] = "jo"}
      starts == {i \in 1..Len(str) :
                   str[i] = "dai" /\ \E j \in ends : j >= i + 2}
  IN IF starts = {} THEN <<>>
     ELSE LET first == CHOOSE i \in starts : \A k \in starts : i <= k
              last == CHOOSE j \in ends : \A k \in ends : k <= j
          IN <<SubSeq(str, first + 1, last - 1)>>

RECURSIVE EvalKanjiNoBareUnit(_, _, _, _)
\* an evaluation in which ten and hundred always multiply the pending digit
EvalKanjiNoBareUnit(kanjiPart, i, result, temp) ==
  IF i > Len(kanjiPart) THEN result + temp
  ELSE IF kanjiPart[i] \notin DOMAIN kanjiNums
  THEN EvalKanjiNoBareUnit(kanjiPart, i + 1, result, temp)
  ELSE LET num == kanjiNums[kanjiPart[i]] IN
       IF num = 10
       THEN EvalKanjiNoBareUnit(kanjiPart, i + 1, result + temp * 10, 0)
       ELSE IF num = 100
       THEN EvalKanjiNoBareUnit(kanjiPart, i + 1, result + temp * 100, 0)
       ELSE EvalKanjiNoBareUnit(kanjiPart, i + 1, result, num)

RECURSIVE EvalKanji(_, _, _, _)
\* the loop over kanjiPart from its i-th character on, and result += temp
EvalKanji(kanjiPart, i, result, temp) ==
  IF i > Len(kanjiPart) THEN result + temp
  ELSE IF kanjiPart[i] \notin DOMAIN kanjiNums
  THEN EvalKanji(kanjiPart, i + 1, result, temp)
  ELSE LET num == kanjiNums[kanjiPart[i]] IN
       IF num = 10
       THEN EvalKanji(kanjiPart, i + 1,
                      result + (IF temp = 0 THEN 10 ELSE temp * 10), 0)
       ELSE IF num = 100
       THEN EvalKanji(kanjiPart, i + 1,
                      result + (IF temp = 0 THEN 100 ELSE temp * 100), 0)
       ELSE EvalKanji(kanjiPart, i + 1, result, num)

normalizeArticleNum(articleStr) ==
  IF MatchDigits(articleStr) # <<>> THEN MatchDigits(articleStr)[1]
  ELSE IF MatchKanji(articleStr) = <<>> THEN articleStr
  ELSE ToDecimal(EvalKanji(MatchKanji(articleStr)[1], 1, 0, 0))

(***************************************************************************)
(* The conventional kanji rendering of 1..9999: for each of the thousands,  *)
(* hundreds and tens a digit 2..9 followed by the unit, the unit alone for  *)
(* 1, nothing for 0; then the ones digit.                                   *)
(***************************************************************************)
KanjiDigits == <<"ichi", "ni", "san", "shi", "go", "roku", "nana", "hachi", "kyu">>

Place(d, unit) ==
  IF d = 0 THEN <<>> ELSE IF d = 1 THEN <<unit>> ELSE <<KanjiDigits[d], unit>>

render_kanji(v) ==
  Place((v \div 1000) % 10, "sen") \o Place((v \div 100) % 10, "hyaku")
    \o Place((v \div 10) % 10, "ju")
    \o (IF v % 10 = 0 THEN <<>> ELSE <<KanjiDigits[v % 10]>>)

Designator(v) == <<"dai">> \o render_kanji(v) \o <<"jo">>

\* the rendering that writes the digit one before a unit as well
PlaceWithOne(d, unit) == IF d = 0 THEN <<>> ELSE <<KanjiDigits[d], unit>>

render_kanji_with_one(v) ==
  PlaceWithOne((v \div 1000) % 10, "sen") \o PlaceWithOne((v \div 100) % 10, "hyaku")
    \o PlaceWithOne((v \div 10) % 10, "ju")
    \o (IF v % 10 = 0 THEN <<>> ELSE <<KanjiDigits[v % 10]>>)

\* designators that were not rendered from a number
OtherDesignators ==
  { <<"2", "0">>, <<"dai", "2", "0", "jo">>, <<"dai", "jo">>, <<"ni", "ju">>,
    <<"dai", "ni", "jo", "no", "ni">>, <<"dai", "ni", "x", "ju", "jo">> }

NumInit ==
  /\ numIn \in {[from |-> v, str |-> Designator(v)] : v \in 1..MaxDesignator}
                 \cup {[from |-> v, str |-> <<"dai">> \o render_kanji_with_one(v) \o <<"jo">>] :
                         v \in 1..MaxDesignator}
                 \cup {[from |-> 0, str |-> d] : d \in OtherDesignators}
  /\ numOut = <<>>
  /\ CacheIdle /\ ToolIdle /\ KeyIdle /\ TreeIdle /\ ClientIdle /\ PureIdle /\ RaceIdle

Normalize ==
  /\ numOut = <<>>
  /\ numOut' = <<normalizeArticleNum(numIn.str)>>
  /\ UNCHANGED <<numIn, cacheVars, toolOut, keyVars, treeVars, clientVars,
                 pureVars, raceVars>>

NumNext == Normalize

SpecNum == NumInit /\ [][NumNext]_vars

(***************************************************************************)
(* The article locator.  A decoded element is a record of its children and  *)
(* attributes; a child is [array |-> <<...>>] or a single element; the      *)
(* attribute @_Num is the field Num.                                        *)
(***************************************************************************)
UndefinedValue == [undefined |-> TRUE]
NullValue == [null |-> TRUE]

\* a test that takes every falsy value for an absent one
ensureArrayFalsy(value) ==
  IF \/ DOMAIN value \in {{"undefined"}, {"null"}}
     \/ DOMAIN value = {"str"} /\ value.str = <<>>
     \/ DOMAIN value = {"num"} /\ value.num = 0
  THEN <<>>
  ELSE IF DOMAIN value = {"array"} THEN value.array
  ELSE <<value>>

Field(node, key) == IF key \in DOMAIN node THEN node[key] ELSE UndefinedValue

ensureArray(value) ==
  IF DOMAIN value \in {{"undefined"}, {"null"}} THEN <<>>
  ELSE IF DOMAIN value = {"array"} THEN value.array
  ELSE <<value>>

\* String(x) of an attribute value: attribute values are decoded as strings
StringOf(x) == IF x = Undefined THEN <<"undefined">> ELSE x

IsPrefix(s, t) == Len(s) <= Len(t) /\ SubSeq(t, 1, Len(s)) = s

\* a comparison that accepts an ordinal the target begins with
NumIsPrefix(article, targetNum) ==
  IsPrefix(StringOf(IF "Num" \in DOMAIN article THEN article.Num ELSE Undefined),
           targetNum)

\* String(num) === targetNum
NumMatches(article, targetNum) ==
  StringOf(IF "Num" \in DOMAIN article THEN article.Num ELSE Undefined) = targetNum

Min(S) == CHOOSE i \in S : \A j \in S : i <= j

ContainerKeys == <<"Part", "Chapter", "Section", "Subsection", "Division">>

\* the children of node under the container keys, in the order they are searched
Children(node) ==
  ensureArray(Field(node, ContainerKeys[1])) \o ensureArray(Field(node, ContainerKeys[2]))
    \o ensureArray(Field(node, ContainerKeys[3])) \o ensureArray(Field(node, ContainerKeys[4]))
    \o ensureArray(Field(node, ContainerKeys[5]))

RECURSIVE findArticleNestedFirst(_, _)
\* a search that enters the nested containers before it compares the
\* Articles of the container itself
findArticleNestedFirst(node, targetNum) ==
  LET articles == ensureArray(Field(node, "Article"))
      direct == {i \in 1..Len(articles) : NumMatches(articles[i], targetNum)}
      children == Children(node)
      hits == {i \in 1..Len(children) :
                 findArticleNestedFirst(children[i], targetNum) # <<>>}
  IN IF hits # {} THEN findArticleNestedFirst(children[Min(hits)], targetNum)
     ELSE IF direct # {} THEN <<articles[Min(direct)]>>
     ELSE <<>>

RECURSIVE findArticleRecursive(_, _)
\* <<the article>>, or <<>> for null
findArticleRecursive(node, targetNum) ==
  LET articles == ensureArray(Field(node, "Article"))
      direct == {i \in 1..Len(articles) : NumMatches(articles[i], targetNum)}
  IN IF direct # {} THEN <<articles[Min(direct)]>>
     ELSE LET children == Children(node)
              hits == {i \in 1..Len(children) :
                         findArticleRecursive(children[i], targetNum) # <<>>}
          IN IF hits = {} THEN <<>>
             ELSE findArticleRecursive(children[Min(hits)], targetNum)

\* a locator that searches the supplementary provisions too
findArticleInAnyProvision(lawBody, targetArticle) ==
  IF "MainProvision" \in DOMAIN lawBody
  THEN findArticleRecursive(lawBody.MainProvision, normalizeArticleNum(targetArticle))
  ELSE IF "SupplProvision" \in DOMAIN lawBody
  THEN findArticleRecursive(lawBody.SupplProvision, normalizeArticleNum(targetArticle))
  ELSE <<>>

findArticle(lawBody, targetArticle) ==
  IF "MainProvision" \notin DOMAIN lawBody THEN <<>>
  ELSE findArticleRecursive(lawBody.MainProvision, normalizeArticleNum(targetArticle))

(***************************************************************************)
(* Law bodies: two Chapters with up to MaxArticles Articles each, drawn     *)
(* from ordinals of which one is a prefix of another, and a few deeper      *)
(* shapes.  ArticleCaption tells the Articles of one tree apart.            *)
(***************************************************************************)
Ordinals == { <<"1">>, <<"2">>, <<"2", "0">>, <<"1", "0", "0">> }

ArticleLists == Strings(Ordinals, MaxArticles)

Art(num, where) == [Num |-> num, ArticleCaption |-> [str |-> where]]

ChapterOf(c, nums) ==
  [Article |-> [array |-> [i \in 1..Len(nums) |->
                             Art(nums[i], <<DigitChars[c + 1], DigitChars[i + 1]>>)]]]

TwoChapters(a, b) ==
  [MainProvision |-> [Chapter |-> [array |-> <<ChapterOf(1, a), ChapterOf(2, b)>>]]]

ClaimTree == TwoChapters(<< <<"1">>, <<"2">> >>, << <<"2", "0">>, <<"1", "0", "0">> >>)

DeepTree ==
  [MainProvision |->
     [Article |-> Art(<<"2">>, <<"top">>),
      Part |-> [array |-> <<
        [Chapter |-> [array |-> <<
           [Section |-> [array |-> <<
              [Article |-> [array |-> <<[ArticleCaption |-> [str |-> <<"unnumbered">>]],
                                        Art(<<"2", "0">>, <<"deep">>)>>]] >>]] >>]] >>],
      Division |-> [array |-> <<ChapterOf(3, << <<"1", "0", "0">>, <<"2", "0">> >>)>>]]]

\* an ordinal that occurs twice among the Articles of the main provision and
\* once more in a Chapter
PrecedenceTree ==
  [MainProvision |->
     [Chapter |-> [array |-> <<[Article |-> [array |-> <<Art(<<"2">>, <<"nested">>),
                                                         Art(<<"3">>, <<"only">>)>>]]>>],
      Article |-> [array |-> <<Art(<<"1">>, <<"a">>), Art(<<"2">>, <<"direct">>),
                               Art(<<"2">>, <<"second">>)>>]]]

NoMainProvision == [SupplProvision |-> [Article |-> [array |-> <<Art(<<"2", "0">>, <<"suppl">>)>>]]]

Trees ==
  {TwoChapters(a, b) : a \in ArticleLists, b \in ArticleLists}
    \cup {DeepTree, PrecedenceTree, NoMainProvision}

Targets ==
  { Designator(1), Designator(2), Designator(3), Designator(20), Designator(100),
    <<"2", "0">>, <<"dai", "ni", "jo", "no", "ni">> }

LocatorInit ==
  /\ tree \in Trees
  /\ numIn \in {[from |-> 0, str |-> t] : t \in Targets}
  /\ numOut = <<>>
  /\ found = <<>>
  /\ CacheIdle /\ ToolIdle /\ KeyIdle /\ ClientIdle /\ PureIdle /\ RaceIdle

Locate ==
  /\ tree # <<>>
  /\ found = <<>>
  /\ found' = <<[article |-> findArticle(tree, numIn.str)]>>
  /\ UNCHANGED <<tree, cacheVars, toolOut, keyVars, numVars, clientVars,
                 pureVars, raceVars>>

LocatorNext == Locate

SpecLocator == LocatorInit /\ [][LocatorNext]_vars

(***************************************************************************)
(* Decoded values.  An element with text only is decoded as a string, or    *)
(* as a number when its text is numeric; an element with children or        *)
(* attributes as an object, whose fields keep the order of the document; a  *)
(* repeated element as an array.  The containers of the law tree above are  *)
(* objects read by key only, and are records.                               *)
(***************************************************************************)
Str(s) == [str |-> s]
Numb(n) == [num |-> n]
Arr(items) == [array |-> items]
Obj(fields) == [object |-> fields]

IsUndefined(v) == DOMAIN v \in {{"undefined"}, {"null"}}
IsStr(v) == DOMAIN v = {"str"}
IsNum(v) == DOMAIN v = {"num"}
IsArray(v) == DOMAIN v = {"array"}
IsObject(v) == DOMAIN v = {"object"}

\* !v
Falsy(v) ==
  \/ IsUndefined(v)
  \/ IsStr(v) /\ v.str = <<>>
  \/ IsNum(v) /\ v.num = 0

\* a || b
Or(a, b) == IF Falsy(a) THEN b ELSE a

\* v[key]
Lookup(v, key) ==
  IF IsObject(v) /\ \E i \in 1..Len(v.object) : v.object[i].key = key
  THEN v.object[Min({i \in 1..Len(v.object) : v.object[i].key = key})].value
  ELSE UndefinedValue

\* Object.values(v) of an object or an array
Values(v) ==
  IF IsArray(v) THEN v.array
  ELSE IF IsObject(v) THEN [i \in 1..Len(v.object) |-> v.object[i].value]
  ELSE <<>>

\* String(v) of a string or a number
StringOfValue(v) ==
  IF IsStr(v) THEN v.str
  ELSE IF IsNum(v) THEN ToDecimal(v.num)
  ELSE <<"[object Object]">>

RECURSIVE Flatten(_)
\* texts.join('')
Flatten(texts) ==
  IF texts = <<>> THEN <<>> ELSE Head(texts) \o Flatten(Tail(texts))

RECURSIVE extractText(_)
extractText(node) ==
  IF Falsy(node) THEN <<>>
  ELSE IF IsStr(node) THEN node.str
  ELSE IF IsNum(node) THEN ToDecimal(node.num)
  ELSE IF ~Falsy(Lookup(node, "#text")) THEN StringOfValue(Lookup(node, "#text"))
  ELSE Flatten([i \in 1..Len(Values(node)) |->
                  LET value == Values(node)[i] IN
                  IF IsStr(value) THEN value.str
                  ELSE IF IsArray(value)
                  THEN Flatten([j \in 1..Len(value.array) |-> extractText(value.array[j])])
                  ELSE IF IsObject(value) \/ DOMAIN value = {"null"}
                  THEN extractText(value)
                  ELSE <<>>])

extractSentenceText(sentence) ==
  IF Falsy(sentence) THEN <<>>
  ELSE IF IsStr(sentence) THEN sentence.str
  ELSE Let(ensureArray(Or(Lookup(sentence, "Sentence"), sentence)),
           LAMBDA sentences :
             Flatten([i \in 1..Len(sentences) |-> extractText(sentences[i])]))

(***************************************************************************)
(* Decoded values of up to MaxTextDepth levels of nesting.                  *)
(***************************************************************************)
Leaves == {Str(<<"a">>), Str(<<"b">>), Numb(3)}

ChildKeys == {"Sentence", "Ruby"}

Field1(k, v) == [key |-> k, value |-> v]

RECURSIVE TextValues(_)
TextValues(d) ==
  IF d = 0 THEN Leaves
  ELSE LET V == TextValues(d - 1) IN
       Leaves
         \cup {Obj(<<Field1(k, v)>>) : k \in ChildKeys, v \in V}
         \cup {Obj(<<Field1("#text", t), Field1(k, v)>>) :
                 t \in Leaves, k \in ChildKeys, v \in V}
         \cup {Obj(<<Field1(p[1], w), Field1(p[2], v)>>) :
                 w \in Leaves, v \in V,
                 p \in {q \in ChildKeys \X ChildKeys : q[1] # q[2]}}
         \cup {Arr(<<v>>) : v \in V}
         \cup {Arr(<<w, v>>) : w \in Leaves, v \in V}

ShapeValues ==
  TextValues(MaxTextDepth)
    \cup {UndefinedValue, NullValue, Str(<<>>), Numb(0), Arr(<<>>),
          Arr(<<Str(<<>>)>>), Arr(<<Numb(0), Str(<<"a">>)>>)}

ShapeInit ==
  /\ call \in {[fn |-> "ensureArray", value |-> v] : v \in ShapeValues}
  /\ ret = <<>>
  /\ CacheIdle /\ ToolIdle /\ KeyIdle /\ NumIdle /\ TreeIdle /\ ClientIdle /\ RaceIdle

EnsureArray ==
  /\ call.fn = "ensureArray"
  /\ ret = <<>>
  /\ ret' = <<ensureArray(call.value)>>
  /\ UNCHANGED <<call, cacheVars, toolOut, keyVars, numVars, treeVars, clientVars,
                 raceVars>>

ShapeNext == EnsureArray

SpecShape == ShapeInit /\ [][ShapeNext]_vars

TextInit ==
  /\ call \in {[fn |-> "extractSentenceText", value |-> v] :
                 v \in TextValues(MaxTextDepth) \cup {UndefinedValue, Str(<<>>)}}
  /\ ret = <<>>
  /\ CacheIdle /\ ToolIdle /\ KeyIdle /\ NumIdle /\ TreeIdle /\ ClientIdle /\ RaceIdle

ExtractSentenceText ==
  /\ call.fn = "extractSentenceText"
  /\ ret = <<>>
  /\ ret' = <<extractSentenceText(call.value)>>
  /\ UNCHANGED <<call, cacheVars, toolOut, keyVars, numVars, treeVars, clientVars,
                 raceVars>>

TextNext == ExtractSentenceText

SpecText == TextInit /\ [][TextNext]_vars

RECURSIVE AllText(_)
\* every textual value of v and of its descendants, in field order
AllText(v) ==
  IF IsStr(v) THEN v.str
  ELSE IF IsNum(v) THEN ToDecimal(v.num)
  ELSE IF IsArray(v) \/ IsObject(v)
  THEN Flatten([i \in 1..Len(Values(v)) |-> AllText(Values(v)[i])])
  ELSE <<>>

(***************************************************************************)
(* Rendering an Article.  A rendered string is a sequence of pieces: the    *)
(* characters of the texts, "**", "LF" for a line feed, "U+3000" for the    *)
(* ideographic space, "  " for one level of indentation.                    *)
(***************************************************************************)
RECURSIVE Join(_, _)
\* parts.join(separator)
Join(parts, separator) ==
  IF parts = <<>> THEN <<>>
  ELSE IF Len(parts) = 1 THEN parts[1]
  ELSE parts[1] \o separator \o Join(Tail(parts), separator)

\* node['@_Num']: an attribute is a string; Undefined when it is missing
Attr(node, name) == IF name \in DOMAIN node THEN node[name] ELSE Undefined

RECURSIVE ParseDecimal(_)
ParseDecimal(chars) ==
  IF chars = <<>> THEN 0
  ELSE 10 * ParseDecimal(SubSeq(chars, 1, Len(chars) - 1))
         + (CHOOSE d \in 0..9 : DigitChars[d + 1] = chars[Len(chars)])

\* Number(x) of an attribute: <<n>>, or <<>> for NaN
NumberOf(x) ==
  IF x = Undefined THEN <<>>
  ELSE IF \A i \in 1..Len(x) : x[i] \in Digit THEN <<ParseDecimal(x)>>
  ELSE <<>>

RECURSIVE Repeat(_, _)
Repeat(piece, n) == IF n = 0 THEN <<>> ELSE <<piece>> \o Repeat(piece, n - 1)

RECURSIVE extractItemContent(_, _)
extractItemContent(item, level) ==
  LET sentence == Field(item, "ItemSentence")
      subitems == ensureArray(Or(Field(item, "Subitem1"), Field(item, "Subitem2")))
  IN Join((IF Falsy(sentence) THEN <<>>
           ELSE << Repeat("  ", level) \o StringOf(Attr(item, "Num")) \o <<"U+3000">>
                     \o extractSentenceText(sentence) >>)
            \o [i \in 1..Len(subitems) |-> extractItemContent(subitems[i], level + 1)],
          <<"LF">>)

extractParagraphContent(paragraph) ==
  LET num == Attr(paragraph, "Num")
      sentence == Field(paragraph, "ParagraphSentence")
      items == ensureArray(Field(paragraph, "Item"))
  IN Join((IF Falsy(sentence) THEN <<>>
           ELSE << (IF num # Undefined /\ num # <<>> /\ num # <<"1">>
                    THEN num \o <<"U+3000">> ELSE <<>>)
                     \o extractSentenceText(sentence) >>)
            \o [i \in 1..Len(items) |-> extractItemContent(items[i], 1)],
          <<"LF">>)

\* a filter that skips nothing
ParagraphNeverSkipped(paraNum, targetParagraph) == FALSE

\* targetParagraph !== undefined && Number(paraNum) !== targetParagraph
ParagraphSkipped(paraNum, targetParagraph) ==
  targetParagraph # <<>> /\ NumberOf(paraNum) # targetParagraph

extractArticleContent(article, targetParagraph) ==
  LET caption == Field(article, "ArticleCaption")
      title == Field(article, "ArticleTitle")
      num == Attr(article, "Num")
      paragraphs == ensureArray(Field(article, "Paragraph"))
      kept == SelectSeq(paragraphs,
                LAMBDA para : ~ParagraphSkipped(Attr(para, "Num"), targetParagraph))
  IN Join((IF Falsy(caption) THEN <<>>
           ELSE << <<"**">> \o extractText(caption) \o <<"**">> >>)
            \o (IF Falsy(title) /\ (num = Undefined \/ num = <<>>) THEN <<>>
                ELSE << <<"**">>
                          \o (IF ~Falsy(title) THEN extractText(title)
                              ELSE <<"dai">> \o num \o <<"jo">>)
                          \o <<"**", "LF">> >>)
            \o [i \in 1..Len(kept) |-> extractParagraphContent(kept[i])],
          <<"LF">>)

(***************************************************************************)
(* Articles of up to MaxParagraphs Paragraphs; the k-th Paragraph has the   *)
(* sentence ParaTexts[k] and, if it has an Item, the Item ItemTexts[k].     *)
(***************************************************************************)
ParaTexts == <<"p1", "p2", "p3", "p4", "p5">>
ItemTexts == <<"i1", "i2", "i3", "i4", "i5">>

ParaNums == { <<"1">>, <<"2">>, <<"3">> }

\* what is drawn for one Paragraph: its number (<<>>: no @_Num) and whether
\* it has an Item
ParaChoices == [num : {<<n>> : n \in ParaNums} \cup {<<>>}, item : BOOLEAN]

ParagraphOf(k, c) ==
  (IF c.num = <<>> THEN [ParagraphSentence |-> Str(<<ParaTexts[k]>>)]
   ELSE [Num |-> c.num[1], ParagraphSentence |-> Str(<<ParaTexts[k]>>)])
  @@ (IF c.item
      THEN [Item |-> Arr(<<[Num |-> <<"1">>, ItemSentence |-> Obj(<<Field1("Sentence",
                                Arr(<<Str(<<ItemTexts[k]>>)>>))>>)]>>)]
      ELSE [Item |-> UndefinedValue])

ArticleOf(titled, choices) ==
  (IF titled THEN [Num |-> <<"5">>, ArticleCaption |-> Str(<<"(", "c", ")">>),
                   ArticleTitle |-> Str(<<"dai", "go", "jo">>)]
   ELSE [Num |-> <<"5">>])
  @@ [Paragraph |-> Arr([k \in 1..Len(choices) |-> ParagraphOf(k, choices[k])])]

\* <XSentence><Sentence>text</Sentence></XSentence> as it is decoded
SentenceOf(text) == Obj(<<Field1("Sentence", Arr(<<Str(<<text>>)>>))>>)

\* the levels below an Item that the decoder is told about (Subitem1, Subitem2)
SubitemDepths == {0, 1, 2}

\* a Subitem of the second level; its sentence is in Subitem2Sentence in the
\* document service's format, and in ItemSentence for the other shape drawn
Subitem2Of(own) ==
  IF own THEN [Num |-> <<"1">>, Subitem2Sentence |-> SentenceOf("s2")]
  ELSE [Num |-> <<"1">>, ItemSentence |-> SentenceOf("s2")]

Subitem1Of(own, depth) ==
  (IF own THEN [Num |-> <<"1">>, Subitem1Sentence |-> SentenceOf("s1")]
   ELSE [Num |-> <<"1">>, ItemSentence |-> SentenceOf("s1")])
  @@ (IF depth >= 2 THEN [Subitem2 |-> Arr(<<Subitem2Of(own)>>)]
      ELSE [Subitem2 |-> UndefinedValue])

\* an Item with `depth` levels of Subitems below it
ItemOf(own, depth) ==
  [Num |-> <<"1">>, ItemSentence |-> SentenceOf("i1")]
  @@ (IF depth >= 1 THEN [Subitem1 |-> Arr(<<Subitem1Of(own, depth)>>)]
      ELSE [Subitem1 |-> UndefinedValue])

ParagraphCalls ==
  {[fn |-> "extractParagraphContent", own |-> own, depth |-> depth,
    paragraph |-> [Num |-> num, ParagraphSentence |-> SentenceOf("p1"),
                   Item |-> Arr(<<ItemOf(own, depth)>>)]] :
     own \in BOOLEAN, depth \in SubitemDepths, num \in ParaNums}

RenderInit ==
  /\ call \in {[fn |-> "extractArticleContent", article |-> ArticleOf(titled, choices),
                choices |-> choices, targetParagraph |-> target] :
                 titled \in BOOLEAN, choices \in Strings(ParaChoices, MaxParagraphs),
                 target \in {<<>>, <<0>>, <<1>>, <<2>>, <<3>>}}
              \cup ParagraphCalls
  /\ ret = <<>>
  /\ CacheIdle /\ ToolIdle /\ KeyIdle /\ NumIdle /\ TreeIdle /\ ClientIdle /\ RaceIdle

ExtractArticleContent ==
  /\ call.fn = "extractArticleContent"
  /\ ret = <<>>
  /\ ret' = <<extractArticleContent(call.article, call.targetParagraph)>>
  /\ UNCHANGED <<call, cacheVars, toolOut, keyVars, numVars, treeVars, clientVars,
                 raceVars>>

ExtractParagraphContent ==
  /\ call.fn = "extractParagraphContent"
  /\ ret = <<>>
  /\ ret' = <<extractParagraphContent(call.paragraph)>>
  /\ UNCHANGED <<call, cacheVars, toolOut, keyVars, numVars, treeVars, clientVars,
                 raceVars>>

RenderNext == ExtractArticleContent \/ ExtractParagraphContent

SpecRender == RenderInit /\ [][RenderNext]_vars

\* the pieces of a rendered string that are texts of Paragraphs or of their Items
BodyTexts(rendered) ==
  SelectSeq(rendered, LAMBDA piece :
    \E k \in 1..Len(ParaTexts) : piece = ParaTexts[k] \/ piece = ItemTexts[k])

(***************************************************************************)
(* parseLawText and parseArticle.  The attribute @_LawId of the Law element *)
(* is the field "@_LawId"; {} is the record without fields.                 *)
(***************************************************************************)
EmptyObject == [k \in {} |-> UndefinedValue]

\* node['@_x'] as a value
AttrValue(node, name) == IF name \in DOMAIN node THEN Str(node[name]) ELSE UndefinedValue

TitleKey(type) ==
  CASE type = "Part" -> "PartTitle"
    [] type = "Chapter" -> "ChapterTitle"
    [] type = "Section" -> "SectionTitle"
    [] type = "Subsection" -> "SubsectionTitle"
    [] type = "Article" -> "ArticleTitle"

\* the first of childTypes under which node has children; "" if there is none
FirstChildType(node) ==
  IF ensureArray(Field(node, "Chapter")) # <<>> THEN "Chapter"
  ELSE IF ensureArray(Field(node, "Section")) # <<>> THEN "Section"
  ELSE IF ensureArray(Field(node, "Subsection")) # <<>> THEN "Subsection"
  ELSE IF ensureArray(Field(node, "Article")) # <<>> THEN "Article"
  ELSE ""

RECURSIVE extractTocItem(_, _)
\* <<the item>>, or <<>> for null
extractTocItem(node, type) ==
  IF Falsy(node) THEN <<>>
  ELSE LET title == Or(Field(node, TitleKey(type)), AttrValue(node, "Num")) IN
       IF Falsy(title) THEN <<>>
       ELSE LET childType == FirstChildType(node)
                children == IF childType = "" THEN <<>>
                            ELSE ensureArray(Field(node, childType))
            IN <<[title |-> extractText(title),
                  ref |-> <<"dai">> \o (IF Falsy(AttrValue(node, "Num")) THEN <<>>
                                        ELSE node.Num),
                  children |->
                    IF childType = "" THEN <<>>
                    ELSE <<Flatten([i \in 1..Len(children) |->
                                      extractTocItem(children[i], childType)])>>]>>

extractToc(lawBody) ==
  LET mainProvision == Field(lawBody, "MainProvision") IN
  IF Falsy(mainProvision) THEN <<>>
  ELSE LET parts == ensureArray(Field(mainProvision, "Part"))
           chapters == ensureArray(Field(mainProvision, "Chapter"))
           articles == ensureArray(Field(mainProvision, "Article"))
           toc == Flatten([i \in 1..Len(parts) |-> extractTocItem(parts[i], "Part")])
                    \o Flatten([i \in 1..Len(chapters) |->
                                  extractTocItem(chapters[i], "Chapter")])
       IN IF toc # <<>> THEN toc
          ELSE [i \in 1..Len(articles) |->
                  [title |-> extractText(Or(Field(articles[i], "ArticleTitle"),
                                            AttrValue(articles[i], "Num"))),
                   ref |-> <<"dai">> \o StringOf(Attr(articles[i], "Num")) \o <<"jo">>]]

\* the parts of a container: its header line, if it has a title, and then
\* the rendered children
Titled(node, key, marks) ==
  IF Falsy(Field(node, key)) THEN <<>>
  ELSE << <<marks>> \o extractText(Field(node, key)) \o <<"LF">> >>

Rendered(nodes) == [i \in 1..Len(nodes) |-> extractArticleContent(nodes[i], <<>>)]

extractSectionContent(section) ==
  Join(Titled(section, "SectionTitle", "#####")
         \o Rendered(ensureArray(Field(section, "Article"))),
       <<"LF">>)

extractChapterContent(chapter) ==
  LET sections == ensureArray(Field(chapter, "Section")) IN
  Join(Titled(chapter, "ChapterTitle", "####")
         \o [i \in 1..Len(sections) |-> extractSectionContent(sections[i])]
         \o (IF sections = <<>> THEN Rendered(ensureArray(Field(chapter, "Article")))
             ELSE <<>>),
       <<"LF">>)

extractPartContent(part) ==
  LET chapters == ensureArray(Field(part, "Chapter")) IN
  Join(Titled(part, "PartTitle", "###")
         \o [i \in 1..Len(chapters) |-> extractChapterContent(chapters[i])],
       <<"LF">>)

extractMainProvisionContent(mainProvision) ==
  LET partsList == ensureArray(Field(mainProvision, "Part"))
      chapters == ensureArray(Field(mainProvision, "Chapter"))
  IN Join([i \in 1..Len(partsList) |-> extractPartContent(partsList[i])]
            \o (IF partsList = <<>>
                THEN [i \in 1..Len(chapters) |-> extractChapterContent(chapters[i])]
                ELSE <<>>)
            \o (IF partsList = <<>>
                THEN Rendered(ensureArray(Field(mainProvision, "Article")))
                ELSE <<>>),
          <<"LF">>)

extractParagraphsText(node) ==
  LET paragraphs == ensureArray(Field(node, "Paragraph")) IN
  Join([i \in 1..Len(paragraphs) |-> extractParagraphContent(paragraphs[i])], <<"LF">>)

extractSupplementaryContent(supp) ==
  Join(Titled(supp, "SupplementaryProvisionLabel", "###")
         \o Rendered(ensureArray(Field(supp, "Article"))),
       <<"LF">>)

extractLawContent(lawBody) ==
  LET preamble == Field(lawBody, "Preamble")
      mainProvision == Field(lawBody, "MainProvision")
      suppArray == ensureArray(Field(lawBody, "SupplementaryProvisions"))
  IN Join((IF Falsy(preamble) THEN <<>>
           ELSE << <<"##", "zenbun", "LF">>, extractParagraphsText(preamble) >>)
            \o (IF Falsy(mainProvision) THEN <<>>
                ELSE << <<"##", "honsoku", "LF">>,
                        extractMainProvisionContent(mainProvision) >>)
            \o (IF Falsy(Field(lawBody, "SupplementaryProvisions")) THEN <<>>
                ELSE << <<"##", "fusoku", "LF">> >>
                       \o [i \in 1..Len(suppArray) |->
                             extractSupplementaryContent(suppArray[i])]),
          <<"LF">>)

\* a probe that takes every layer for present
EnvelopeAllLayers(result) ==
  Let(Field(Field(result, "DataRoot"), "ApplData"), LAMBDA applData :
  Let(Field(Field(applData, "LawFullText"), "Law"), LAMBDA lawData :
    [applData |-> applData,
     lawData |-> lawData,
     lawId |-> Or(Or(Field(applData, "LawId"), AttrValue(lawData, "@_LawId")), Str(<<>>)),
     lawBody |-> Or(Field(lawData, "LawBody"), EmptyObject)]))

\* the envelope: DataRoot > ApplData > LawFullText > Law
Envelope(result) ==
  Let(Or(Field(result, "DataRoot"), result), LAMBDA dataRoot :
  Let(Or(Field(dataRoot, "ApplData"), dataRoot), LAMBDA applData :
  Let(Or(Field(applData, "LawFullText"), applData), LAMBDA lawFullText :
  Let(Or(Field(lawFullText, "Law"), lawFullText), LAMBDA lawData :
    [applData |-> applData,
     lawData |-> lawData,
     lawId |-> Or(Or(Field(applData, "LawId"), AttrValue(lawData, "@_LawId")), Str(<<>>)),
     lawBody |-> Or(Field(lawData, "LawBody"), EmptyObject)]))))

parseLawText(xml, time) ==
  Let(Envelope(xml), LAMBDA e :
    [lawId |-> StringOfValue(e.lawId),
     lawNumber |-> StringOfValue(Or(Or(Field(e.lawData, "LawNum"),
                                       AttrValue(e.lawData, "@_LawNum")), Str(<<>>))),
     lawName |-> extractText(Or(Or(Field(e.lawBody, "LawTitle"),
                                   Field(e.lawData, "LawTitle")), Str(<<>>))),
     content |-> extractLawContent(e.lawBody),
     toc |-> extractToc(e.lawBody),
     fetchedAt |-> toISOString(time)])

extractParagraphs(article, targetParagraph) ==
  LET paragraphs == ensureArray(Field(article, "Paragraph"))
      NumOf(para) == IF NumberOf(Attr(para, "Num")) \in {<<>>, <<0>>} THEN 1
                     ELSE NumberOf(Attr(para, "Num"))[1]
      kept == SelectSeq(paragraphs, LAMBDA para :
                targetParagraph = <<>> \/ NumOf(para) = targetParagraph[1])
  IN [i \in 1..Len(kept) |->
        LET items == ensureArray(Field(kept[i], "Item")) IN
        [num |-> NumOf(kept[i]),
         content |-> extractSentenceText(Field(kept[i], "ParagraphSentence")),
         items |-> [j \in 1..Len(items) |->
                      [num |-> StringOf(Attr(items[j], "Num")),
                       content |-> extractSentenceText(Field(items[j], "ItemSentence"))]]]]

\* <<>> for null, else <<the Article>>
parseArticle(xml, targetArticle, targetParagraph) ==
  Let(Envelope(xml), LAMBDA e :
  Let(findArticle(e.lawBody, targetArticle), LAMBDA article :
    IF article = <<>> THEN <<>>
    ELSE <<[lawId |-> StringOfValue(e.lawId),
            articleNum |-> targetArticle,
            articleTitle |-> IF Falsy(Field(article[1], "ArticleTitle")) THEN Undefined
                             ELSE extractText(Field(article[1], "ArticleTitle")),
            content |-> extractArticleContent(article[1], targetParagraph),
            paragraphs |-> extractParagraphs(article[1], targetParagraph)]>>))

(***************************************************************************)
(* Payloads: a Law element, wrapped in the layers of a subset of            *)
(* {DataRoot, ApplData, LawFullText, Law}; a layer that is left out leaves  *)
(* its children in its parent.                                              *)
(***************************************************************************)
Layers == {"DataRoot", "ApplData", "LawFullText", "Law"}

\* f with the field k added
With(f, k, v) == [x \in DOMAIN f \cup {k} |-> IF x = k THEN v ELSE f[x]]

Wrap(S, layer, content) == IF layer \in S THEN With(EmptyObject, layer, content) ELSE content

\* the decoded document: law is the content of the Law element, applId the
\* LawId element of the application data and attrId the LawId attribute of
\* the Law element (<<>>: none)
Payload(S, law, applId, attrId) ==
  Wrap(S, "DataRoot",
    Wrap(S, "ApplData",
      Let(Wrap(S, "LawFullText",
            Wrap(S, "Law",
              IF attrId = <<>> \/ "Law" \notin S THEN law
              ELSE With(law, "@_LawId", attrId[1]))),
          LAMBDA inner :
            IF applId = <<>> THEN inner ELSE With(inner, "LawId", Str(applId[1])))))

TitledChapter == [ChapterTitle |-> Str(<<"dai", "ichi", "sho">>)]

SectionedChapter ==
  [ChapterTitle |-> Str(<<"dai", "ni", "sho">>),
   Section |-> Arr(<<[SectionTitle |-> Str(<<"dai", "ichi", "setsu">>)]>>)]

ParagraphsBody ==
  [MainProvision |->
     [Article |-> Arr(<<ArticleOf(TRUE, <<[num |-> << <<"1">> >>, item |-> FALSE],
                                          [num |-> << <<"2">> >>, item |-> TRUE]>>)>>)]]

\* contents of a Law element with Articles
LawsWithArticles ==
  { [LawNum |-> Str(<<"n">>), LawBody |-> ClaimTree],
    [LawNum |-> Str(<<"n">>), LawBody |-> DeepTree],
    [LawNum |-> Str(<<"n">>), LawBody |-> With(ParagraphsBody, "LawTitle", Str(<<"t">>))] }

\* contents of a Law element without an Article in the main provision
LawsWithoutArticles ==
  { [LawNum |-> Str(<<"n">>)],
    [LawNum |-> Str(<<"n">>), LawBody |-> Str(<<>>)],
    [LawNum |-> Str(<<"n">>), LawBody |-> [LawTitle |-> Str(<<"t">>)]],
    [LawNum |-> Str(<<"n">>), LawBody |-> [MainProvision |-> Str(<<>>)]],
    [LawNum |-> Str(<<"n">>), LawBody |-> [MainProvision |-> [Chapter |-> Arr(<<Str(<<>>)>>)]]],
    [LawNum |-> Str(<<"n">>), LawBody |-> [MainProvision |-> [Chapter |-> Arr(<<TitledChapter>>)]]],
    [LawNum |-> Str(<<"n">>),
     LawBody |-> [MainProvision |-> [Chapter |-> Arr(<<Str(<<>>), SectionedChapter>>)]]],
    [LawNum |-> Str(<<"n">>), LawBody |-> NoMainProvision] }

ParseCalls ==
  {[fn |-> "parse", layers |-> S, law |-> law, applId |-> applId, attrId |-> attrId,
    xml |-> Payload(S, law, applId, attrId), targetArticle |-> target] :
     S \in SUBSET Layers, law \in LawsWithArticles \cup LawsWithoutArticles,
     applId \in {<<>>, << <<"A">> >>}, attrId \in {<<>>, << <<"B">> >>},
     target \in {Designator(20), Designator(2)}}
  \cup
  {[fn |-> "parse", layers |-> Layers, law |-> [LawBody |-> t], applId |-> <<>>,
    attrId |-> <<>>, xml |-> Payload(Layers, [LawBody |-> t], <<>>, <<>>),
    targetArticle |-> target] :
     t \in Trees, target \in {Designator(20), Designator(2)}}

\* parseArticle with a paragraph filter, on a law of one Article (number 5)
FilterCalls ==
  {[fn |-> "parseArticle", choices |-> choices,
    xml |-> Payload(Layers,
                    [LawBody |-> [MainProvision |->
                                    [Article |-> Arr(<<ArticleOf(TRUE, choices)>>)]]],
                    <<>>, <<>>),
    targetArticle |-> Designator(5), targetParagraph |-> target] :
     choices \in Strings(ParaChoices, MaxParagraphs), target \in {<<1>>, <<2>>}}

NoResults == [lawText |-> <<>>, article |-> <<>>]

ParseInit ==
  /\ call \in ParseCalls \cup FilterCalls
  /\ ret = NoResults
  /\ CacheIdle /\ ToolIdle /\ KeyIdle /\ NumIdle /\ TreeIdle /\ ClientIdle /\ RaceIdle

ParseLawText ==
  /\ call.fn = "parse"
  /\ ret.lawText = <<>>
  /\ ret' = [ret EXCEPT !.lawText = <<parseLawText(call.xml, now)>>]
  /\ UNCHANGED <<call, cacheVars, toolOut, keyVars, numVars, treeVars, clientVars,
                 raceVars>>

ParseArticle ==
  /\ call.fn \in {"parse", "parseArticle"}
  /\ ret.article = <<>>
  /\ ret' = [ret EXCEPT !.article =
                <<parseArticle(call.xml, call.targetArticle,
                               IF call.fn = "parse" THEN <<>> ELSE call.targetParagraph)>>]
  /\ UNCHANGED <<call, cacheVars, toolOut, keyVars, numVars, treeVars, clientVars,
                 raceVars>>

ParseNext == ParseLawText \/ ParseArticle

SpecParse == ParseInit /\ [][ParseNext]_vars

\* the LawBody of the Law that a call wrapped
BodyOf(law) == IF "LawBody" \in DOMAIN law /\ ~Falsy(law.LawBody) THEN law.LawBody
               ELSE EmptyObject

RECURSIVE ArticlesUnder(_)
\* the Articles of a container and of the containers below it
ArticlesUnder(node) ==
  ensureArray(Field(node, "Article"))
    \o Flatten([i \in 1..Len(Children(node)) |-> ArticlesUnder(Children(node)[i])])

\* how often part occurs in text
Occurrences(text, part) ==
  Cardinality({i \in 1..(Len(text) - Len(part) + 1) :
                 SubSeq(text, i, i + Len(part) - 1) = part})

(***************************************************************************)
(* Two LawCache.set calls in flight on one key.  A call awaits              *)
(* ensureInitialized, builds its entry, and awaits writeFile, which opens   *)
(* the file for writing (truncating it) and then writes the text from the   *)
(* start of the file through its own handle; the other call runs between    *)
(* the awaits.  A text is as long as its entry has properties to print.     *)
(***************************************************************************)
\* the text as the units of the file it fills, one for the frame of the
\* entry and one for each property of the payload that is printed
TextUnits(text) ==
  [i \in 1..(1 + Cardinality(DOMAIN text.json.data)) |-> [text |-> text, at |-> i]]

\* write(fd, units) at the start of the file: what was there beyond the
\* units written stays
WriteAtStart(bytes, units) ==
  [i \in 1..(IF Len(bytes) > Len(units) THEN Len(bytes) ELSE Len(units)) |->
     IF i <= Len(units) THEN units[i] ELSE bytes[i]]

\* the content of a file of these units, as readFile hands it to JSON.parse
ContentOf(bytes) ==
  IF bytes # <<>> /\ bytes = TextUnits(bytes[1].text) THEN bytes[1].text ELSE Corrupt

Callers == {1, 2}

RaceInit ==
  /\ now = 0
  /\ cacheDir \in {"dir", "absent", "blocked"}
  /\ writable \in BOOLEAN
  /\ files = <<>>
  /\ initialized = FALSE
  /\ config = LawCacheConfig(<<>>)
  /\ out = NoOut
  /\ lastSet = <<>>
  /\ \E type \in CacheTypes, id \in Ids, data \in [Callers -> Payloads] :
       sets = [calls |-> [i \in Callers |->
                            [pc |-> "start", type |-> type, id |-> id,
                             data |-> data[i], text |-> <<>>]],
               bytes |-> <<>>,
               order |-> <<>>]
  /\ ToolIdle /\ KeyIdle /\ NumIdle /\ TreeIdle /\ ClientIdle /\ PureIdle

RaceTick ==
  /\ sets # <<>>
  /\ now < MaxTime
  /\ now' = now + 1
  /\ UNCHANGED <<cacheDir, writable, files, initialized, config, out, lastSet, sets,
                 toolOut, keyVars, numVars, treeVars, clientVars, pureVars>>

\* set up to the call of writeFile: ensureInitialized, the key and the entry
SetBegin(i) ==
  /\ sets # <<>>
  /\ sets.calls[i].pc = "start"
  /\ LET c == sets.calls[i]
         e == ensureInitialized(initialized, cacheDir)
         entry == [data |-> c.data,
                   cachedAt |-> toISOString(now),
                   expiresAt |-> toISOString(now + getTtl(config, c.type))]
     IN /\ initialized' = e.initialized
        /\ cacheDir' = e.dir
        /\ sets' = [sets EXCEPT !.calls[i] =
                      IF e.threw THEN [c EXCEPT !.pc = "threw"]
                      ELSE [c EXCEPT !.pc = "open", !.text = <<JsonStringify(entry)>>]]
  /\ UNCHANGED <<now, writable, files, config, out, lastSet,
                 toolOut, keyVars, numVars, treeVars, clientVars, pureVars>>

\* writeFile: open(path, 'w')
SetOpen(i) ==
  /\ sets # <<>>
  /\ sets.calls[i].pc = "open"
  /\ LET c == sets.calls[i]
         w == writeFile(cacheDir, writable, files, getCacheKey(c.type, c.id),
                        ContentOf(<<>>))
     IN /\ files' = w.fs
        /\ sets' = IF w.err # None
                   THEN [sets EXCEPT !.calls[i].pc = "threw"]
                   ELSE [sets EXCEPT !.calls[i].pc = "write", !.bytes = <<>>]
  /\ UNCHANGED <<now, cacheDir, writable, initialized, config, out, lastSet,
                 toolOut, keyVars, numVars, treeVars, clientVars, pureVars>>

\* writeFile: write of the text through the handle, then close
SetWrite(i) ==
  /\ sets # <<>>
  /\ sets.calls[i].pc = "write"
  /\ LET c == sets.calls[i]
         bytes == WriteAtStart(sets.bytes, TextUnits(c.text[1]))
     IN /\ files' = (getCacheKey(c.type, c.id) :> ContentOf(bytes)) @@ files
        /\ sets' = [sets EXCEPT !.calls[i].pc = "done", !.bytes = bytes,
                                !.order = Append(@, i)]
  /\ UNCHANGED <<now, cacheDir, writable, initialized, config, out, lastSet,
                 toolOut, keyVars, numVars, treeVars, clientVars, pureVars>>

\* get on the key once both calls have settled
RaceGet ==
  /\ sets # <<>>
  /\ \A i \in Callers : sets.calls[i].pc \in {"done", "threw"}
  /\ out = NoOut
  /\ LET c == sets.calls[1]
         r == LawCacheGet(initialized, cacheDir, files, now, c.type, c.id)
     IN /\ initialized' = r.initialized
        /\ cacheDir' = r.dir
        /\ out' = [op |-> "get", type |-> c.type, id |-> c.id, kind |-> r.kind,
                   value |-> r.value, seen |-> r.seen, at |-> now]
  /\ UNCHANGED <<now, writable, files, config, lastSet, sets,
                 toolOut, keyVars, numVars, treeVars, clientVars, pureVars>>

RaceNext ==
  \/ RaceTick
  \/ \E i \in Callers : SetBegin(i)
  \/ \E i \in Callers : SetOpen(i)
  \/ \E i \in Callers : SetWrite(i)
  \/ RaceGet

SpecRace == RaceInit /\ [][RaceNext]_vars

(***************************************************************************)
(* EGovLawClient.getArticle over fetchWithRetry, in the two revisions of    *)
(* the client.  A response of the service is a rejected fetch, a status     *)
(* other than 2xx, or a body; a body is the decoded document and whether    *)
(* its text contains <Code>1</Code>.                                        *)
(***************************************************************************)
MAX_RETRIES == 3
RETRY_DELAY == 1000

Impls == {"client.ts", "part_004"}

LawDoc == [LawBody |-> ClaimTree]
EmptyDoc == [Law |-> Str(<<>>)]

Responses ==
  { [kind |-> "reject"],
    [kind |-> "status", status |-> 404],
    [kind |-> "status", status |-> 500],
    [kind |-> "body", code1 |-> FALSE, doc |-> LawDoc],
    [kind |-> "body", code1 |-> FALSE, doc |-> EmptyDoc],
    [kind |-> "body", code1 |-> TRUE, doc |-> EmptyDoc] }

ApiFailure(code) == [success |-> FALSE, code |-> code, data |-> <<>>]
ApiSuccess(data) == [success |-> TRUE, code |-> "", data |-> <<data>>]

\* the failure after the last attempt: message is lastError.message
FetchError(message) ==
  [success |-> FALSE, code |-> "FETCH_ERROR", data |-> <<>>, message |-> message]

Returns(result) == [kind |-> "return", result |-> result, error |-> ""]
Throws(error) == [kind |-> "throw", result |-> ApiFailure(""), error |-> error]

\* the parser getArticle hands to fetchWithRetry; params.paragraph is left out
ArticleParser(doc, article) ==
  IF parseArticle(doc, article, <<>>) = <<>>
  THEN Throws("article missing")
  ELSE Returns(ApiSuccess(parseArticle(doc, article, <<>>)[1]))

\* the parser getLawById hands to fetchWithRetry
LawParser(doc) == Returns(ApiSuccess([lawBody |-> doc]))

\* a try block that throws on every status other than 2xx, 404 included
TryOnceThrowing404(revision, stage, article, response) ==
  IF response.kind = "reject" THEN Throws("fetch failed")
  ELSE IF response.kind = "status" THEN Throws("HTTP")
  ELSE IF revision = "part_004" /\ response.code1
  THEN Returns(ApiFailure("API_ERROR"))
  ELSE IF stage = "law" THEN LawParser(response.doc)
  ELSE ArticleParser(response.doc, article)

\* the try block of one iteration of fetchWithRetry
TryOnce(revision, stage, article, response) ==
  IF response.kind = "reject" THEN Throws("fetch failed")
  ELSE IF response.kind = "status"
  THEN IF response.status = 404 THEN Returns(ApiFailure("NOT_FOUND"))
       ELSE Throws("HTTP")
  ELSE IF revision = "part_004" /\ response.code1
  THEN Returns(ApiFailure("API_ERROR"))
  ELSE IF stage = "law" THEN LawParser(response.doc)
  ELSE ArticleParser(response.doc, article)

ClientTargets == {Designator(20), Designator(3)}

ClientInit ==
  /\ impl \in Impls
  /\ fetch = <<>>
  /\ lawListCache = <<>>
  /\ CacheIdle /\ ToolIdle /\ KeyIdle /\ NumIdle /\ TreeIdle /\ PureIdle /\ RaceIdle

NewFetch(stage, article, log) ==
  [stage |-> stage, article |-> article, pc |-> "fetch", attempt |-> 1,
   lastError |-> "", log |-> log, result |-> <<>>]

\* getArticle is called: client.ts first runs getLawById
GetArticle(article) ==
  /\ fetch = <<>>
  /\ fetch' = <<NewFetch(IF impl = "client.ts" THEN "law" ELSE "article", article, <<>>)>>
  /\ UNCHANGED <<impl, lawListCache, cacheVars, toolOut, keyVars, numVars,
                 treeVars, pureVars, raceVars>>

\* one iteration of the loop of fetchWithRetry, up to its return or to the
\* delay of its catch block
Attempt(response) ==
  /\ fetch # <<>>
  /\ fetch[1].pc = "fetch"
  /\ LET f == fetch[1]
         o == TryOnce(impl, f.stage, f.article, response)
         log == Append(f.log, [ev |-> "fetch", stage |-> f.stage,
                               status |-> IF response.kind = "status" THEN response.status
                                          ELSE IF response.kind = "body" THEN 200 ELSE 0,
                               outcome |-> IF o.kind = "throw" THEN o.error
                                           ELSE IF o.result.success THEN "ok"
                                           ELSE o.result.code])
     IN fetch' =
          IF o.kind = "return"
          THEN IF f.stage = "law" /\ o.result.success
               THEN <<NewFetch("article", f.article, log)>>
               ELSE <<[f EXCEPT !.pc = "done", !.log = log, !.result = <<o.result>>]>>
          ELSE IF f.attempt < MAX_RETRIES
          THEN <<[f EXCEPT !.pc = "delay", !.log = log, !.lastError = o.error]>>
          ELSE <<[f EXCEPT !.pc = "done", !.log = log, !.lastError = o.error,
                           !.result = <<FetchError(o.error)>>]>>
  /\ UNCHANGED <<impl, lawListCache, cacheVars, toolOut, keyVars, numVars,
                 treeVars, pureVars, raceVars>>

\* a wait that does not grow with the attempt
ConstantDelay(attempt) == RETRY_DELAY

\* the wait after a failed attempt
BackoffDelay(attempt) == RETRY_DELAY * attempt

\* await this.delay(RETRY_DELAY * attempt) ends and the loop goes round
Delay ==
  /\ fetch # <<>>
  /\ fetch[1].pc = "delay"
  /\ fetch' = <<[fetch[1] EXCEPT
                   !.pc = "fetch",
                   !.attempt = @ + 1,
                   !.log = Append(@, [ev |-> "delay", stage |-> fetch[1].stage,
                                      status |-> 0,
                                      outcome |-> ToDecimal(BackoffDelay(fetch[1].attempt))])]>>
  /\ UNCHANGED <<impl, lawListCache, cacheVars, toolOut, keyVars, numVars,
                 treeVars, pureVars, raceVars>>

ClientNext ==
  \/ \E article \in ClientTargets : GetArticle(article)
  \/ \E response \in Responses : Attempt(response)
  \/ Delay

SpecClient == ClientInit /\ [][ClientNext]_vars

\* every fetch settles (it is aborted after the timeout at the latest) and
\* every delay timer fires
SpecClientFair ==
  /\ SpecClient
  /\ WF_vars(\E response \in Responses : Attempt(response))
  /\ WF_vars(Delay)

\* the events of the log that belong to one fetchWithRetry call
StageLog(log, stage) == SelectSeq(log, LAMBDA e : e.stage = stage)

(***************************************************************************)
(* C1: with a positive TTL, a get of the key of the last completed set      *)
(* returns the value that was set as long as the TTL has not elapsed since  *)
(* the set, and returns miss once the clock is past the TTL.                *)
(***************************************************************************)
C1_SetThenGet ==
  (/\ out.op = "get"
   /\ lastSet # <<>>
   /\ out.type = lastSet[1].type
   /\ out.id = lastSet[1].id
   /\ getTtl(config, out.type) > 0)
  => LET s == lastSet[1]
         ttl == getTtl(config, s.type)
     IN /\ out.at < s.at + ttl =>
             /\ out.kind = "value"
             /\ SameValue(out.value[1], s.data)
        /\ out.at > s.at + ttl => out.kind = "miss"

\* a get, later than the set but within the TTL, that returned the payload,
\* one of whose properties JSON dropped
C1_Witness ==
  /\ out.op = "get"
  /\ lastSet # <<>>
  /\ out.type = lastSet[1].type
  /\ out.id = lastSet[1].id
  /\ getTtl(config, out.type) > 0
  /\ out.at > lastSet[1].at
  /\ out.at < lastSet[1].at + getTtl(config, out.type)
  /\ out.kind = "value"
  /\ lastSet[1].data.lawNameKana = Undefined

(***************************************************************************)
(* C2: get never propagates a fault: whatever the state of the cache        *)
(* directory and its files, it ends with the payload or with miss.          *)
(***************************************************************************)
C2_GetNeverThrows ==
  out.op = "get" => out.kind \in {"value", "miss"}

(***************************************************************************)
(* C3: a cache write failure never aborts a request: when the client was    *)
(* asked and answered with success, the search_laws / get_law_text call     *)
(* returns that result (isError false), whether or not set could write it.  *)
(***************************************************************************)
C3_FetchedResultReturned ==
  (/\ toolOut # <<>>
   /\ toolOut[1].upstream.success
   /\ \E i \in 1..Len(toolOut[1].call.calls) :
        toolOut[1].call.calls[i].fn \in
          {"client.searchLaws", "client.getLawById", "client.getLawByNumber"})
  => /\ ~toolOut[1].call.isError
     /\ toolOut[1].call.data = <<toolOut[1].upstream.data>>

(***************************************************************************)
(* C4: a get that finds an entry returns miss whenever now >= expiresAt,    *)
(* the instant now = expiresAt included, and the payload only when          *)
(* now < expiresAt.                                                         *)
(***************************************************************************)
C4_MissFromExpiryOn ==
  (out.op = "get" /\ out.seen # <<>>)
  => LET expiresAt == DateParse(out.seen[1].expiresAt)
     IN /\ out.at >= expiresAt => out.kind = "miss"
        /\ out.kind = "value" => out.at < expiresAt

(***************************************************************************)
(* C5: every entry written by set has cachedAt = the time of the write and  *)
(* expiresAt = cachedAt + ttl(category), and expiresAt > cachedAt, for      *)
(* every TTL configuration the constructor accepts.                         *)
(***************************************************************************)
C5_EntryInvariant ==
  (out.op = "set" /\ out.kind = "done")
  => LET entry == JsonParse(files[getCacheKey(out.type, out.id)]).value
         cachedAt == DateParse(entry.cachedAt)
         expiresAt == DateParse(entry.expiresAt)
     IN /\ cachedAt = out.at
        /\ expiresAt = cachedAt + getTtl(config, out.type)
        /\ expiresAt > cachedAt

(***************************************************************************)
(* C6: the file name of (category, id) is category, "_", sanitize(id),      *)
(* ".json", where sanitize(id) has the length of id, keeps every character  *)
(* of [A-Za-z0-9_-] and has "_" in place of every other one.                *)
(***************************************************************************)
C6_KeyShape ==
  keyOut # <<>> =>
    LET key == keyOut[1]
        id == keyIn.id
        safeId == SubSeq(key, 3, Len(key) - 1)
    IN /\ Len(key) = Len(id) + 3
       /\ key[1] = keyIn.type
       /\ key[2] = "_"
       /\ key[Len(key)] = ".json"
       /\ Len(safeId) = Len(id)
       /\ \A i \in 1..Len(id) :
            /\ safeId[i] \in SafeChars
            /\ safeId[i] \notin {"/", ".", "U+6CD5", "U+D842", "U+DFB7"}
            /\ id[i] \in SafeChars => safeId[i] = id[i]
            /\ id[i] \notin SafeChars => safeId[i] = "_"

\* an identifier with a path separator and a kanji between safe characters
C6_Witness ==
  /\ keyIn.type = "lawText"
  /\ keyIn.id = <<"a", "/", "U+6CD5">>
  /\ keyOut = << <<"lawText", "_", "a", "_", "_", ".json">> >>

(***************************************************************************)
(* C7: for every v in 1..9999, normalizeArticleNum of the designator        *)
(* rendered from v is the decimal string of v.                              *)
(***************************************************************************)
C7_RoundTripTo9999 ==
  (numOut # <<>> /\ numIn.from \in 1..9999 /\ numIn.str = Designator(numIn.from))
  => numOut[1] = ToDecimal(numIn.from)

(***************************************************************************)
(* C8: for every v in 1..999, whose rendering uses the digits, ten and      *)
(* hundred only, the two-accumulator evaluation returns the decimal string  *)
(* of v; the six designators of the test table give 1, 10, 20, 23, 100, 123.*)
(***************************************************************************)
C8_RoundTripTo999 ==
  numOut # <<>> =>
    /\ numIn.from \in 1..999 => numOut[1] = ToDecimal(numIn.from)
    /\ numIn.str = <<"dai", "ichi", "jo">> => numOut[1] = <<"1">>
    /\ numIn.str = <<"dai", "ju", "jo">> => numOut[1] = <<"1", "0">>
    /\ numIn.str = <<"dai", "ni", "ju", "jo">> => numOut[1] = <<"2", "0">>
    /\ numIn.str = <<"dai", "ni", "ju", "san", "jo">> => numOut[1] = <<"2", "3">>
    /\ numIn.str = <<"dai", "hyaku", "jo">> => numOut[1] = <<"1", "0", "0">>
    /\ numIn.str = <<"dai", "hyaku", "ni", "ju", "san", "jo">>
         => numOut[1] = <<"1", "2", "3">>

\* the designator of 123 was normalized
C8_Witness ==
  /\ numIn.from = 123
  /\ numIn.str = <<"dai", "hyaku", "ni", "ju", "san", "jo">>
  /\ numOut = << <<"1", "2", "3">> >>

(***************************************************************************)
(* C9: the locator compares whole ordinals: in the tree with the ordinals   *)
(* 1, 2 in the first Chapter and 20, 100 in the second, the designator of   *)
(* 20 finds the Article numbered 20 and the designator of 2 the one         *)
(* numbered 2; and whatever Article is returned, its ordinal is exactly the *)
(* normalized target.                                                       *)
(***************************************************************************)
C9_WholeNumberMatch ==
  found # <<>> =>
    LET article == found[1].article IN
    /\ article # <<>> =>
         /\ "Num" \in DOMAIN article[1]
         /\ article[1].Num = normalizeArticleNum(numIn.str)
    /\ (tree = ClaimTree /\ numIn.str = Designator(20))
         => article = <<Art(<<"2", "0">>, <<"2", "1">>)>>
    /\ (tree = ClaimTree /\ numIn.str = Designator(2))
         => article = <<Art(<<"2">>, <<"1", "2">>)>>

\* the designator of 20 was located in the tree of the claim
C9_Witness ==
  /\ tree = ClaimTree
  /\ numIn.str = <<"dai", "ni", "ju", "jo">>
  /\ found = <<[article |-> <<[Num |-> <<"2", "0">>,
                                ArticleCaption |-> [str |-> <<"2", "1">>]]>>]>>

(***************************************************************************)
(* C10: once a fetched document turned out to hold no Article for the       *)
(* requested designator, getArticle is over: that fetch is the last event   *)
(* of the call, no delay is waited and no further attempt is made.          *)
(***************************************************************************)
C10_ArticleMissingIsTerminal ==
  fetch # <<>> =>
    \A i \in 1..Len(fetch[1].log) :
      (fetch[1].log[i].ev = "fetch" /\ fetch[1].log[i].outcome = "article missing")
      => /\ i = Len(fetch[1].log)
         /\ fetch[1].pc = "done"

(***************************************************************************)
(* C11: when getArticle ends because the locator found no Article (the last *)
(* fetch of the call ended in "article missing"), the ApiResponse it        *)
(* returns is a failure with code NOT_FOUND.                                *)
(***************************************************************************)
C11_MissingIsNotFound ==
  (/\ fetch # <<>>
   /\ fetch[1].pc = "done"
   /\ fetch[1].log[Len(fetch[1].log)].outcome = "article missing")
  => /\ fetch[1].result # <<>>
     /\ ~fetch[1].result[1].success
     /\ fetch[1].result[1].code = "NOT_FOUND"

(***************************************************************************)
(* C12: a fetch answered with status 404 is the last event of its           *)
(* fetchWithRetry call, whatever the attempt number: the call is over, with *)
(* the failure NOT_FOUND, and neither a delay nor an attempt follows.       *)
(***************************************************************************)
C12_NotFoundIsTerminal ==
  fetch # <<>> =>
    \A i \in 1..Len(fetch[1].log) :
      (fetch[1].log[i].ev = "fetch" /\ fetch[1].log[i].status = 404)
      => /\ i = Len(fetch[1].log)
         /\ fetch[1].pc = "done"
         /\ fetch[1].result = <<ApiFailure("NOT_FOUND")>>

\* a 404 on the second attempt, after one failed attempt and its delay
C12_Witness ==
  /\ fetch # <<>>
  /\ fetch[1].pc = "done"
  /\ Len(fetch[1].log) = 3
  /\ fetch[1].log[1].outcome = "HTTP"
  /\ fetch[1].log[2].ev = "delay"
  /\ fetch[1].log[3].status = 404
  /\ fetch[1].result = <<ApiFailure("NOT_FOUND")>>

(***************************************************************************)
(* C13: every fetchWithRetry call makes at most MAX_RETRIES attempts, with  *)
(* a wait of RETRY_DELAY * k between attempt k and attempt k + 1 and none   *)
(* after the last attempt; a finished call has a result, which is           *)
(* FETCH_ERROR with the error of the last attempt when that attempt threw;  *)
(* and every started call finishes.                                         *)
(***************************************************************************)
C13_BoundedRetries ==
  /\ [](fetch # <<>> =>
         /\ fetch[1].attempt \in 1..MAX_RETRIES
         /\ \A stage \in {"law", "article"} :
              LET l == StageLog(fetch[1].log, stage) IN
              /\ Len(l) <= 2 * MAX_RETRIES - 1
              /\ \A i \in 1..Len(l) :
                   IF i % 2 = 1 THEN l[i].ev = "fetch"
                   ELSE /\ l[i].ev = "delay"
                        /\ l[i].outcome = ToDecimal(RETRY_DELAY * (i \div 2))
                        /\ l[i - 1].outcome \in {"fetch failed", "HTTP", "article missing"}
         /\ fetch[1].pc = "done" =>
              LET last == fetch[1].log[Len(fetch[1].log)] IN
              /\ last.ev = "fetch"
              /\ fetch[1].result # <<>>
              /\ last.outcome \in {"fetch failed", "HTTP", "article missing"}
                   => /\ fetch[1].attempt = MAX_RETRIES
                      /\ fetch[1].result = <<FetchError(last.outcome)>>)
  /\ (fetch # <<>>) ~> (fetch # <<>> /\ fetch[1].pc = "done")

\* three failed attempts and the two waits between them
C13_Witness ==
  /\ fetch # <<>>
  /\ fetch[1].pc = "done"
  /\ impl = "part_004"
  /\ Len(fetch[1].log) = 5
  /\ fetch[1].log[2].outcome = <<"1", "0", "0", "0">>
  /\ fetch[1].log[4].outcome = <<"2", "0", "0", "0">>
  /\ fetch[1].log[5].outcome = "fetch failed"
  /\ fetch[1].result = <<FetchError("fetch failed")>>

(***************************************************************************)
(* C14: ensureArray gives the empty sequence for undefined and null, the    *)
(* sequence itself for an array, and the one-element sequence of the value  *)
(* for anything else, the empty string and zero included; so a value and    *)
(* the one-element array of it normalize alike, and normalizing the result  *)
(* again changes nothing.                                                   *)
(***************************************************************************)
C14_EnsureArrayShape ==
  (ret # <<>> /\ call.fn = "ensureArray") =>
    LET v == call.value
        r == ret[1]
    IN /\ IsUndefined(v) => r = <<>>
       /\ IsArray(v) => r = v.array
       /\ (~IsUndefined(v) /\ ~IsArray(v))
            => /\ Len(r) = 1
               /\ r[1] = v
               /\ ensureArray(Arr(<<v>>)) = r
       /\ ensureArray(Arr(r)) = r

\* the empty string, a single item, became a one-element sequence
C14_Witness ==
  /\ call = [fn |-> "ensureArray", value |-> [str |-> <<>>]]
  /\ ret = << <<[str |-> <<>>]>> >>

(***************************************************************************)
(* C19: extractSentenceText returns the string itself for a string, and for *)
(* anything else the concatenation, in field order, of every textual value  *)
(* among its descendants.                                                   *)
(***************************************************************************)
C19_AllTextRecovered ==
  (ret # <<>> /\ call.fn = "extractSentenceText")
  => ret[1] = AllText(call.value)

(***************************************************************************)
(* C15: with a filter p, the rendered Article holds the texts of the        *)
(* Paragraphs numbered p, with their Items, in document order, and the text *)
(* of no other Paragraph; without a filter it holds the texts of all        *)
(* Paragraphs in document order.                                            *)
(***************************************************************************)
C15_ParagraphFilter ==
  (ret # <<>> /\ call.fn = "extractArticleContent") =>
    BodyTexts(ret[1]) =
      Flatten([k \in 1..Len(call.choices) |->
                 IF \/ call.targetParagraph = <<>>
                    \/ /\ call.choices[k].num # <<>>
                       /\ call.choices[k].num[1] = ToDecimal(call.targetParagraph[1])
                 THEN <<ParaTexts[k]>>
                        \o (IF call.choices[k].item THEN <<ItemTexts[k]>> ELSE <<>>)
                 ELSE <<>>])

\* Paragraphs 1 and 2 and the filter 2: only the second Paragraph is rendered
C15_Witness ==
  /\ call.fn = "extractArticleContent"
  /\ call.targetParagraph = <<2>>
  /\ call.choices = <<[num |-> << <<"1">> >>, item |-> FALSE],
                      [num |-> << <<"2">> >>, item |-> FALSE]>>
  /\ ret = << <<"**", "dai", "5", "jo", "**", "LF", "LF", "2", "U+3000", "p2">> >>

(***************************************************************************)
(* C16: whichever of the layers DataRoot, ApplData, LawFullText and Law are *)
(* present, parseLawText renders the body and the table of contents of the  *)
(* same LawBody and parseArticle looks the Article up in it; the identifier *)
(* is the LawId of the application data when there is one, else the LawId   *)
(* attribute of the Law element, else empty; and both functions report the  *)
(* same identifier.                                                         *)
(***************************************************************************)
C16_EnvelopeProbing ==
  (call # <<>> /\ call.fn = "parse") =>
    LET body == BodyOf(call.law)
        id == IF call.applId # <<>> THEN call.applId[1]
              ELSE IF call.attrId # <<>> /\ "Law" \in call.layers THEN call.attrId[1]
              ELSE <<>>
    IN /\ ret.lawText # <<>> =>
            /\ ret.lawText[1].content = extractLawContent(body)
            /\ ret.lawText[1].toc = extractToc(body)
            /\ ret.lawText[1].lawId = id
       /\ ret.article # <<>> =>
            /\ (ret.article[1] = <<>>) = (findArticle(body, call.targetArticle) = <<>>)
            /\ ret.article[1] # <<>> =>
                 /\ ret.article[1][1].lawId = id
                 /\ ret.article[1][1].content =
                      extractArticleContent(findArticle(body, call.targetArticle)[1], <<>>)

\* a Law element directly under DataRoot: both functions found its body and
\* fell back to its LawId attribute
C16_Witness ==
  /\ call # <<>> /\ call.fn = "parse"
  /\ call.layers = {"DataRoot", "Law"}
  /\ call.applId = <<>> /\ call.attrId = << <<"B">> >>
  /\ call.law = [LawNum |-> Str(<<"n">>), LawBody |-> ClaimTree]
  /\ call.targetArticle = Designator(20)
  /\ ret.lawText # <<>> /\ ret.lawText[1].lawId = <<"B">>
  /\ Occurrences(ret.lawText[1].content, <<"**", "2", "1", "**">>) = 1
  /\ ret.article # <<>> /\ ret.article[1] # <<>>
  /\ ret.article[1][1].lawId = <<"B">>

C18_EveryArticleRendered ==
  (call # <<>> /\ call.fn = "parse" /\ ret.lawText # <<>>) =>
    LET articles == ArticlesUnder(Field(BodyOf(call.law), "MainProvision"))
        located == findArticle(BodyOf(call.law), call.targetArticle)
        Shown(article) ==
          Occurrences(ret.lawText[1].content,
                      <<"**">> \o extractText(Field(article, "ArticleCaption")) \o <<"**">>)
    IN /\ \A i \in 1..Len(articles) : Shown(articles[i]) = 1
       /\ located # <<>> => Shown(located[1]) >= 1

(***************************************************************************)
(* C20: when two set calls on one key have run concurrently and both have   *)
(* completed, get on the key returns the value of the call whose write      *)
(* happened last, in full.                                                  *)
(***************************************************************************)
C20_LastWriteWins ==
  (/\ sets # <<>>
   /\ \A i \in Callers : sets.calls[i].pc = "done"
   /\ out.op = "get") =>
    /\ out.kind = "value"
    /\ SameValue(out.value[1], sets.calls[sets.order[Len(sets.order)]].data)

(***************************************************************************)
(* C21: a get_article request that repeats the one before it, with the      *)
(* same law_id, article and paragraph, while the cache holds a fresh entry  *)
(* for what it reads, is answered without a call of the client.             *)
(***************************************************************************)
C21_RepeatedArticleFromCache ==
  (/\ toolOut # <<>>
   /\ toolOut[1].call.tool = "get_article"
   /\ toolOut[1].repeated
   /\ LawCacheGet(initialized, cacheDir, files, now, "lawText",
                  toolOut[1].params.law_id).kind = "value")
  => \A i \in 1..Len(toolOut[1].call.calls) :
       toolOut[1].call.calls[i].fn # "client.getArticle"

(***************************************************************************)
(* C22: a get changes no cache file, also when it finds the entry expired   *)
(* or corrupt: the files change only in a step of set, delete or clear (or  *)
(* of another process), and the entry a get found expired is still there    *)
(* and counted by getStats.                                                 *)
(***************************************************************************)
C22_LazyExpiry ==
  [][/\ (out' # out /\ out'.op = "get") =>
          /\ files' = files
          /\ out'.seen # <<>> =>
               /\ getCacheKey(out'.type, out'.id) \in DOMAIN files'
               /\ LawCacheGetStats(initialized', cacheDir', files').value[1].totalFiles >= 1
     /\ (files' # files /\ out' # out) => out'.op \in {"set", "delete", "clear"}]_vars

\* a get has found the entry expired and answered miss; the file is as it was
C22_Witness ==
  /\ out.op = "get" /\ out.kind = "miss" /\ out.seen # <<>>
  /\ out.at >= DateParse(out.seen[1].expiresAt)
  /\ getCacheKey(out.type, out.id) \in DOMAIN files
  /\ files[getCacheKey(out.type, out.id)] = [json |-> out.seen[1]]

(***************************************************************************)
(* C26: after a clear that met no filesystem error, every get misses and    *)
(* getStats reports no file and no oldest or newest entry; after            *)
(* delete(category, id) a get of that key misses and the files of the       *)
(* other keys are as they were; a delete on an initialized cache always     *)
(* completes.                                                               *)
(***************************************************************************)
C26_ClearAndDelete ==
  [][/\ (out' # out /\ out'.op = "clear" /\ out'.kind = "done" /\ writable) =>
          /\ \A type \in Types, id \in Ids :
               LawCacheGet(initialized', cacheDir', files', now', type, id).kind = "miss"
          /\ LawCacheGetStats(initialized', cacheDir', files').value =
               <<[totalFiles |-> 0, oldestEntry |-> Null, newestEntry |-> Null]>>
     /\ (out' # out /\ out'.op = "delete") =>
          /\ initialized => out'.kind = "done"
          /\ out'.kind = "done" =>
               /\ LawCacheGet(initialized', cacheDir', files', now',
                              out'.type, out'.id).kind = "miss"
               /\ \A k \in DOMAIN files \ {getCacheKey(out'.type, out'.id)} :
                    k \in DOMAIN files' /\ files'[k] = files[k]]_vars

(***************************************************************************)
(* C23: search_laws with a missing, empty or whitespace-only keyword,       *)
(* get_law_text with neither law_id nor law_number, and get_article without *)
(* law_id or without article return success = false with the code           *)
(* INVALID_PARAMS, call neither the cache nor the client, and leave the     *)
(* cache object and its directory as they were.                             *)
(***************************************************************************)
C23_InvalidParamsRejected ==
  /\ [](toolOut # <<>> =>
          LET t == toolOut[1]
              Missing(x) == x = Undefined \/ x = <<>>
              invalid ==
                CASE t.call.tool = "search_laws" ->
                       \/ Missing(t.params.keyword)
                       \/ \A i \in 1..Len(t.params.keyword) :
                            t.params.keyword[i] \in Whitespace
                  [] t.call.tool = "get_law_text" ->
                       Missing(t.params.law_id) /\ Missing(t.params.law_number)
                  [] t.call.tool = "get_article" ->
                       Missing(t.params.law_id) \/ Missing(t.params.article)
          IN invalid => /\ ~t.call.caught
                        /\ t.call.isError
                        /\ t.call.code = "INVALID_PARAMS"
                        /\ t.call.calls = <<>>)
  /\ [][(toolOut' # <<>> /\ toolOut'[1].call.code = "INVALID_PARAMS") =>
          UNCHANGED <<initialized, cacheDir, files>>]_vars

\* a keyword of one space was rejected on a cache that was never touched
C23_Witness ==
  /\ toolOut # <<>>
  /\ toolOut[1].call.tool = "search_laws"
  /\ toolOut[1].params.keyword = <<" ">>
  /\ toolOut[1].call.code = "INVALID_PARAMS"
  /\ toolOut[1].call.calls = <<>>
  /\ ~initialized /\ cacheDir = "absent"

(***************************************************************************)
(* C24: the locator returns the first Article with the target ordinal in    *)
(* this order: the Articles of the container itself in document order, then *)
(* what each nested container gives in the same way, depth-first; it        *)
(* returns null only when no Article of the main provision has the ordinal. *)
(***************************************************************************)
C24_SearchOrder ==
  (found # <<>> /\ "MainProvision" \in DOMAIN tree) =>
    LET order == ArticlesUnder(tree.MainProvision)
        targetNum == normalizeArticleNum(numIn.str)
        matches == {i \in 1..Len(order) : NumMatches(order[i], targetNum)}
    IN found[1].article = IF matches = {} THEN <<>> ELSE <<order[Min(matches)]>>

\* of the three Articles numbered 2, the first one of the main provision
\* itself was returned, not the one in its Chapter
C24_Witness ==
  /\ tree = PrecedenceTree
  /\ numIn.str = Designator(2)
  /\ found = <<[article |-> <<Art(<<"2">>, <<"direct">>)>>]>>

(***************************************************************************)
(* C25: a search_laws or get_law_text call that passes validation reads the *)
(* cache first; on a fresh entry it returns the entry and calls nothing     *)
(* else; the client is called only after a miss; cache.set is called only   *)
(* after the client answered with success, first under the key that was     *)
(* read, and the file then holds the fetched data; and after a              *)
(* get_law_text by law_number that returned a fetched document, a get of    *)
(* the lawText entry of the document's lawId is a hit with that document.   *)
(***************************************************************************)
C25_CacheThenFetch ==
  [][(/\ writable' = writable
      /\ toolOut' # <<>>
      /\ toolOut'[1].call.tool \in {"search_laws", "get_law_text"}
      /\ toolOut'[1].call.calls # <<>>) =>
       LET t == toolOut'[1]
           calls == t.call.calls
           type == IF t.call.tool = "search_laws" THEN "lawList" ELSE "lawText"
           key == IF t.call.tool = "search_laws"
                  THEN SearchCacheKey(t.params.keyword, t.params.category)
                  ELSE IF t.params.law_id # Undefined THEN t.params.law_id
                  ELSE t.params.law_number
           cached == LawCacheGet(initialized, cacheDir, files, now, type, key)
           IsClient(c) == c.fn \in {"client.searchLaws", "client.getLawById",
                                    "client.getLawByNumber", "client.findSimilarLaws"}
           stores == {i \in 1..Len(calls) : calls[i].fn = "cache.set"}
       IN /\ calls[1] = Call("cache.get", type, key)
          /\ cached.kind = "value" =>
               /\ calls = <<calls[1]>>
               /\ ~t.call.isError
               /\ t.call.data = cached.value
          /\ \A i \in 1..Len(calls) : IsClient(calls[i]) => i > 1 /\ cached.kind = "miss"
          /\ stores # {} =>
               /\ t.upstream.success
               /\ \E j \in 1..(Min(stores) - 1) : IsClient(calls[j])
               /\ calls[Min(stores)] = Call("cache.set", type, key)
          /\ (stores # {} /\ ~t.call.caught) =>
               /\ ~t.call.isError
               /\ getCacheKey(type, key) \in DOMAIN files'
               /\ files'[getCacheKey(type, key)].json.data
                    = JsonStringifyObject(t.upstream.data)
          /\ (/\ t.call.tool = "get_law_text"
              /\ t.params.law_number \notin {Undefined, <<>>}
              /\ cached.kind = "miss"
              /\ ~t.call.isError) =>
               LET later == LawCacheGet(initialized', cacheDir', files', now', "lawText",
                                        t.upstream.data.lawId)
               IN later.kind = "value" /\ SameValue(later.value[1], t.upstream.data)]_vars

\* a get_law_text by law_number fetched the document and stored it under the
\* number and under its lawId
C25_Witness ==
  /\ toolOut # <<>>
  /\ toolOut[1].call.tool = "get_law_text"
  /\ toolOut[1].params = [law_id |-> Undefined, law_number |-> <<"U+6CD5">>]
  /\ ~toolOut[1].call.isError
  /\ Len(toolOut[1].call.calls) = 4
  /\ toolOut[1].call.calls[4] = Call("cache.set", "lawText", <<"A">>)
  /\ getCacheKey("lawText", <<"A">>) \in DOMAIN files
  /\ getCacheKey("lawText", <<"U+6CD5">>) \in DOMAIN files

(***************************************************************************)
(* C27: a rendered Paragraph holds its Item at indent level 1 (two spaces   *)
(* per level) with the Item's number, and every Subitem k levels below the  *)
(* Item at indent level 1 + k with its own number: no Subitem is left out.  *)
(***************************************************************************)
C27_SubitemsRendered ==
  (ret # <<>> /\ call.fn = "extractParagraphContent") =>
    LET Line(level, text) ==
          Occurrences(ret[1], <<"LF">> \o Repeat("  ", level)
                                \o <<"1", "U+3000", text>>)
    IN /\ Line(1, "i1") = 1
       /\ call.depth >= 1 => Line(2, "s1") = 1
       /\ call.depth >= 2 => Line(3, "s2") = 1

(***************************************************************************)
(* C28: a tool call is never answered from the entry that the tool call     *)
(* before it stored for another query: not a search_laws for (k2, c2) from  *)
(* the entry stored for a different (k1, c1), and not a get_law_text by     *)
(* law_number n2 from the entry stored for a different law_number n1.       *)
(***************************************************************************)
C28_EntryOnlyForItsQuery ==
  [][(/\ writable' = writable
      /\ toolOut # <<>> /\ toolOut' # <<>>
      /\ toolOut'[1].call.tool = toolOut[1].call.tool
      /\ toolOut'[1].params # toolOut[1].params
      /\ \/ toolOut[1].call.tool = "search_laws"
         \/ /\ toolOut[1].call.tool = "get_law_text"
            /\ toolOut[1].params.law_id = Undefined
            /\ toolOut'[1].params.law_id = Undefined
      \* the call before stored what it fetched
      /\ ~toolOut[1].call.isError
      /\ \E i \in 1..Len(toolOut[1].call.calls) :
           toolOut[1].call.calls[i].fn = "cache.set"
      \* this call was answered from the cache
      /\ ~toolOut'[1].call.isError
      /\ Len(toolOut'[1].call.calls) = 1) =>
       getCacheKey(toolOut'[1].call.calls[1].type, toolOut'[1].call.calls[1].id)
         # getCacheKey(toolOut[1].call.calls[1].type, toolOut[1].call.calls[1].id)]_vars

(***************************************************************************)
(* search_laws over the client that reads the category lists               *)
(* (GET /lawlists/{category}) and filters them by the keyword itself.       *)
(* A law is written by its id; LawInfoOf gives its fields.                  *)
(***************************************************************************)
LawCategories == <<1, 2, 3, 4>>
MaxSearchResults == 100

LawInfoOf ==
  [A |-> [lawName |-> <<"U+6CD5">>, lawNumber |-> <<"1">>, lawNameKana |-> Undefined],
   B |-> [lawName |-> <<"K", "U+4EE4">>, lawNumber |-> <<"2">>,
          lawNameKana |-> <<"k", "a">>]]

\* what the service lists under each category
CategoryLists == << <<"A", "B">>, <<"B">>, <<>>, <<>> >>

UpperChars == <<"A","B","C","D","E","F","G","H","I","J","K","L","M",
                "N","O","P","Q","R","S","T","U","V","W","X","Y","Z">>
LowerChars == <<"a","b","c","d","e","f","g","h","i","j","k","l","m",
                "n","o","p","q","r","s","t","u","v","w","x","y","z">>

toLowerCase(str) ==
  [i \in 1..Len(str) |->
     IF \E j \in 1..Len(UpperChars) : UpperChars[j] = str[i]
     THEN LowerChars[CHOOSE j \in 1..Len(UpperChars) : UpperChars[j] = str[i]]
     ELSE str[i]]

\* str.includes(part)
includes(str, part) ==
  \E i \in 0..(Len(str) - Len(part)) : SubSeq(str, i + 1, i + Len(part)) = part

SearchResultOf(laws) == [totalCount |-> ToDecimal(Len(laws)), laws |-> laws]

\* what fetchWithRetry returns for the list of `category` when the requests for
\* the categories in `down` fail
FetchLawList(category, down) ==
  IF category \in down
  THEN [success |-> FALSE, code |-> "FETCH_ERROR", similar |-> FALSE]
  ELSE [success |-> TRUE, data |-> SearchResultOf(CategoryLists[category])]

\* getLawListByCategory(category): the result, the lawListCache it leaves and
\* whether it went to the network
getLawListByCategory(category, listCache, down) ==
  IF category \in DOMAIN listCache
  THEN [result |-> [success |-> TRUE, data |-> SearchResultOf(listCache[category])],
        cache |-> listCache, fetched |-> FALSE]
  ELSE LET result == FetchLawList(category, down) IN
       [result |-> result,
        cache |-> IF result.success
                  THEN (category :> result.data.laws) @@ listCache
                  ELSE listCache,
        fetched |-> TRUE]

\* for (const cat of categories) { ... if (result.success) allLaws.push(...) }
RECURSIVE Collect(_, _, _, _)
Collect(categories, listCache, down, acc) ==
  IF categories = <<>> THEN acc
  ELSE LET r == getLawListByCategory(Head(categories), listCache, down) IN
       Collect(Tail(categories), r.cache, down,
         [allLaws |-> IF r.result.success THEN acc.allLaws \o r.result.data.laws
                      ELSE acc.allLaws,
          cache |-> r.cache,
          fetches |-> acc.fetches
                        \cup (IF r.fetched THEN {Head(categories)} ELSE {}),
          failed |-> acc.failed
                       \cup (IF r.result.success THEN {} ELSE {Head(categories)})])

\* EGovLawClient.searchLaws({keyword, category})
ClientSearchLaws(params, listCache, down) ==
  LET categories == IF params.category \in {Undefined, <<"0">>}
                    THEN LawCategories
                    ELSE <<ParseDecimal(params.category)>>
      all == Collect(categories, listCache, down,
                     [allLaws |-> <<>>, cache |-> listCache,
                      fetches |-> {}, failed |-> {}])
      Matches(law) ==
        LET info == LawInfoOf[law] IN
        \/ includes(toLowerCase(info.lawName), toLowerCase(params.keyword))
        \/ includes(info.lawNumber, params.keyword)
        \/ (info.lawNameKana # Undefined /\ info.lawNameKana # <<>>
            /\ includes(info.lawNameKana, params.keyword))
      filteredLaws == IF params.keyword \in {Undefined, <<>>} THEN all.allLaws
                      ELSE SelectSeq(all.allLaws, Matches)
      shown == SubSeq(filteredLaws, 1,
                      IF Len(filteredLaws) < MaxSearchResults THEN Len(filteredLaws)
                      ELSE MaxSearchResults)
  IN [result |-> [success |-> TRUE,
                  data |-> [totalCount |-> ToDecimal(Len(filteredLaws)),
                            laws |-> shown]],
      cache |-> all.cache, fetches |-> all.fetches, failed |-> all.failed,
      requested |-> {categories[i] : i \in 1..Len(categories)}]

\* a search_laws call while the requests for the categories in `down` fail
ToolSearchLawsByCategory(params, down) ==
  LET client == ClientSearchLaws(params, lawListCache, down)
      r == searchLaws(params, client.result, CacheState, writable, config, now)
      called == \E i \in 1..Len(r.calls) : r.calls[i].fn = "client.searchLaws"
  IN /\ initialized' = r.initialized
     /\ cacheDir' = r.dir
     /\ files' = r.fs
     /\ lawListCache' = IF called THEN client.cache ELSE lawListCache
     /\ toolOut' = <<[call |-> CallTool("search_laws", r), params |-> params,
                      requested |-> IF called THEN client.requested ELSE {},
                      fetches |-> IF called THEN client.fetches ELSE {},
                      failed |-> IF called THEN client.failed ELSE {}]>>
     /\ UNCHANGED <<now, writable, config, out, lastSet, keyVars, numVars,
                    treeVars, impl, fetch, pureVars, raceVars>>

\* the network is up, the list of one category cannot be read, the network is down
Outages == { {}, {1}, {1, 2, 3, 4} }

SearchNext ==
  \/ \E params \in SearchParams, down \in Outages :
       ToolSearchLawsByCategory(params, down)
  \/ EnvChmod

SpecSearch == ToolsInit /\ [][SearchNext]_vars

(***************************************************************************)
(* C30: a search_laws call for which the request for the list of every      *)
(* category it searches fails reports failure and leaves the files of the   *)
(* cache as they were.                                                      *)
(***************************************************************************)
C30_FailedSearchNotStored ==
  [][(/\ writable' = writable
      /\ toolOut' # <<>>
      /\ toolOut'[1].requested # {}
      /\ toolOut'[1].failed = toolOut'[1].requested)
       => (toolOut'[1].call.isError /\ files' = files)]_vars

(***************************************************************************)
(* C29: in an Article that parseArticle returns for a paragraph filter, a   *)
(* Paragraph is in the list `paragraphs` if and only if its text is in      *)
(* `content`, also when it has no Num attribute.                            *)
(***************************************************************************)
C29_ParagraphsAgreeWithContent ==
  (call # <<>> /\ call.fn = "parseArticle" /\ ret.article # <<>>) =>
    /\ ret.article[1] # <<>>
    /\ LET article == ret.article[1][1] IN
       \A k \in 1..Len(call.choices) :
         (\E i \in 1..Len(article.paragraphs) :
            article.paragraphs[i].content = <<ParaTexts[k]>>)
         <=> Occurrences(article.content, <<ParaTexts[k]>>) > 0

====
